---- MODULE Spec2Model ----
(***************************************************************************)
(* Intel_Briefing: the multi-source collection pipeline.                   *)
(*                                                                         *)
(*   src/src/intel_collector.py     fetch_all_sources, _fetch_external_    *)
(*                                  sources, the sensor wrappers,          *)
(*                                  _dedup_items                           *)
(*   src/src/external/fetch_news.py filter_items and the source fetchers   *)
(*   src/src/utils/verifier.py      verify_link                            *)
(*   src/src/sensors/arxiv_ai.py    fetch_ai_papers, _query_arxiv          *)
(*   src/src/report_generator.py    generate_report                        *)
(*   src/src/utils/gemini_translator.py  the calls to the translator       *)
(*                                                                         *)
(* Strings the code inspects (titles, keywords) are sequences of           *)
(* one-character strings, so that strip(), lower(), split(',') and the     *)
(* regular expression of filter_items are computed, not assumed.           *)
(*                                                                         *)
(* The module holds several specifications over one set of variables; each *)
(* specification drives one group of variables and leaves the others at    *)
(* their idle values:                                                      *)
(*   SpecDedup  _dedup_items on bounded input lists                        *)
(*   SpecFilter filter_items on bounded item lists and keywords            *)
(*   SpecFetch  one call of one source fetcher against the HTTP responses  *)
(*              it may receive                                             *)
(*   SpecFetchLive SpecFetch with the fetcher running to its end           *)
(*   SpecValidate  one call of validate_grok_report on a bounded report    *)
(*   SpecVerify    one call of verify_link, request by request             *)
(*   SpecArxiv     one call of fetch_ai_papers, query by query             *)
(*   SpecSocial    one call of _fetch_grok_social                          *)
(*   SpecReport    one call of generate_report                             *)
(*   SpecRate      the translator calls and delays of one generate_report  *)
(*   SpecExt    one call of _fetch_external_sources: its pool of five      *)
(*              fetcher tasks and the as_completed loop, step by step      *)
(*   Spec       one call of fetch_all_sources: its pool of six tasks, the  *)
(*              sensor wrappers, the join and the assembly of the bundle   *)
(*   SpecJoin   SpecExt and Spec together: a run of either pool            *)
(***************************************************************************)
EXTENDS Integers, Sequences, FiniteSets, TLC

VARIABLES
    \* ---- _dedup_items (SpecDedup)
    dedupPc,        \* "off" | "call" | "once" | "twice"
    dedupItems,     \* the argument `items`
    dedupOut,       \* _dedup_items(items)
    dedupTwice,     \* _dedup_items(_dedup_items(items))
    \* ---- filter_items (SpecFilter)
    filterPc,       \* "off" | "call" | "done"
    filterItems,    \* the argument `items`
    filterKeyword,  \* the argument `keyword`: None or Some(text)
    filterOut,      \* filter_items(items, keyword)
    \* ---- one call of a source fetcher of fetch_news.py (SpecFetch)
    fetchPc,        \* "off" | "idle" | "hn" | "returned" | "raised"
    fetchSource,    \* the fetcher called: "none" before the call
    fetchLimit,     \* the argument `limit`
    fetchKeyword,   \* the argument `keyword`: None or Some(text)
    hnPage,         \* fetch_hackernews: `page`
    hnItems,        \* fetch_hackernews: `news_items`
    fetchReqs,      \* how each HTTP request made so far ended: "ok" | "status" | "raise"
    fetchResp,      \* the response to the last request
    fetchSleeps,    \* the number of time.sleep(0.5) calls so far
    fetchResult,    \* the list returned
    fetchExc,       \* the exception that left the fetcher, "" if none
    fetchParsed,    \* the items parsed so far, before the keyword filter
    \* ---- one call of _fetch_external_sources (SpecExt)
    extPc,          \* "off" | "start" | "collect" | "failing" | "returned" | "raised"
    extLimit,       \* the argument `limit`
    futState,       \* fetcher -> "idle" | "running" | "done": its future
    futResult,      \* fetcher -> what its future holds: NoResult, Ret(items) or Raise(e)
    extYielded,     \* the fetchers whose future as_completed has yielded
    results,        \* `results`: category -> list
    extReturn,      \* what the call returned
    \* ---- one call of fetch_all_sources (Spec)
    mainPc,         \* "off" | "start" | "await" | "done" | "raised"
    limitPerSource, \* the argument `limit_per_source`
    available,      \* flag -> the value import gave the *_AVAILABLE flag
    taskState,      \* top-level task -> "idle" | "running" | "done"
    taskResult,     \* top-level task -> what its future holds
    intel,          \* the bundle returned
    called,         \* the sensors whose function the wrappers have called
    \* ---- one call of validate_grok_report (SpecValidate)
    valPc,          \* "off" | "call" | "done"
    valIn,          \* the argument markdown_content
    valVerifier,    \* VERIFIER_AVAILABLE
    valDead,        \* the urls verify_link answers False for
    valChecked,     \* the urls verify_link was called with, in order
    valOut,         \* the text returned
    \* ---- one call of verify_link (SpecVerify)
    verPc,          \* "off" | "call" | "head" | "get" | "returned" | "raised"
    verUrl,         \* the argument url
    verReqs,        \* the requests issued, in order, each with its outcome
    verResult,      \* the value returned
    verExc,         \* the exception that left verify_link, "" if none
    \* ---- one call of fetch_ai_papers (SpecArxiv)
    arxPc,          \* "off" | "query" | "check" | "returned"
    arxLimit,       \* the argument limit
    arxI,           \* the loop index i of enumerate(strategies)
    arxPapers,      \* the local papers: what the last query returned
    arxLog,         \* the queries made and the delays slept, in order
    arxResult,      \* the value returned
    \* ---- one call of _fetch_grok_social (SpecSocial)
    socPc,          \* "off" | "call" | "done"
    socGrok,        \* GROK_AVAILABLE
    socVerifier,    \* VERIFIER_AVAILABLE
    socCall,        \* what fetch_grok_intel comes back with
    socDead,        \* the urls verify_link answers False for
    socOut,         \* the list returned
    \* ---- one call of generate_report (SpecReport)
    repPc,          \* "off" | "call" | "done"
    repIntel,       \* the argument intel
    repDate,        \* the argument date_str
    repSummary,     \* what generate_executive_summary returns
    repOut,         \* the report returned
    \* ---- the translator calls of one generate_report (SpecRate)
    ratePc,         \* "off" | "summary" | "research" | "insights" | "done"
    rateIn,         \* the flags of the module and the items of the bundle
    rateI,          \* the index of the item the loop is at
    rateLog         \* the requests to the API and the delays, in order

dedupVars == <<dedupPc, dedupItems, dedupOut, dedupTwice>>
filterVars == <<filterPc, filterItems, filterKeyword, filterOut>>
fetchVars == <<fetchPc, fetchSource, fetchLimit, fetchKeyword, hnPage, hnItems,
               fetchReqs, fetchResp, fetchSleeps, fetchResult, fetchExc,
               fetchParsed>>

extVars == <<extPc, extLimit, futState, futResult, extYielded, results, extReturn>>
mainVars == <<mainPc, limitPerSource, available, taskState, taskResult, intel,
             called>>

valVars == <<valPc, valIn, valVerifier, valDead, valChecked, valOut>>

verVars == <<verPc, verUrl, verReqs, verResult, verExc>>

arxVars == <<arxPc, arxLimit, arxI, arxPapers, arxLog, arxResult>>

socVars == <<socPc, socGrok, socVerifier, socCall, socDead, socOut>>

repVars == <<repPc, repIntel, repDate, repSummary, repOut>>

rateVars == <<ratePc, rateIn, rateI, rateLog>>

vars == <<dedupVars, filterVars, fetchVars, extVars, mainVars, valVars, verVars,
          arxVars, socVars, repVars, rateVars>>

\* An Optional[...] argument: None, or a value
None == <<>>
Some(v) == <<v>>

(***************************************************************************)
(* The idle values of each group: what a specification that does not drive *)
(* the group holds it at                                                   *)
(***************************************************************************)

IdleDedup ==
    /\ dedupPc = "off"
    /\ dedupItems = <<>>
    /\ dedupOut = <<>>
    /\ dedupTwice = <<>>

IdleFilter ==
    /\ filterPc = "off"
    /\ filterItems = <<>>
    /\ filterKeyword = None
    /\ filterOut = <<>>

IdleFetch ==
    /\ fetchPc = "off"
    /\ fetchSource = "none"
    /\ fetchLimit = 0
    /\ fetchKeyword = None
    /\ hnPage = 0
    /\ hnItems = <<>>
    /\ fetchReqs = <<>>
    /\ fetchResp = [kind |-> "none"]
    /\ fetchSleeps = 0
    /\ fetchResult = <<>>
    /\ fetchExc = ""
    /\ fetchParsed = <<>>

Fetchers == {"hn", "github", "36kr", "wallstreetcn", "v2ex"}
Sensors == {"product_hunt", "arxiv", "social", "xhs", "hn_blogs"}
Tasks == {"external"} \cup Sensors

\* The *_AVAILABLE flags
Flags == {"PH", "ARXIV", "GROK", "XHS", "HN_BLOGS", "VERIFIER"}
ExternalCategories == {"tech_trends", "capital_flow", "community"}

\* A future that holds nothing yet
NoResult == [out |-> "none"]
NoBundle == [none |-> TRUE]

IdleExt ==
    /\ extPc = "off"
    /\ extLimit = 0
    /\ futState = [f \in Fetchers |-> "idle"]
    /\ futResult = [f \in Fetchers |-> NoResult]
    /\ extYielded = {}
    /\ results = [c \in ExternalCategories |-> <<>>]
    /\ extReturn = NoResult

IdleRep ==
    /\ repPc = "off"
    /\ repIntel = NoBundle
    /\ repDate = <<>>
    /\ repSummary = <<>>
    /\ repOut = <<>>

IdleRate ==
    /\ ratePc = "off"
    /\ rateIn = <<>>
    /\ rateI = 0
    /\ rateLog = <<>>

IdleSoc ==
    /\ socPc = "off"
    /\ socGrok = FALSE
    /\ socVerifier = FALSE
    /\ socCall = NoResult
    /\ socDead = {}
    /\ socOut = <<>>

IdleArx ==
    /\ arxPc = "off"
    /\ arxLimit = 0
    /\ arxI = 0
    /\ arxPapers = <<>>
    /\ arxLog = <<>>
    /\ arxResult = <<>>

IdleVer ==
    /\ verPc = "off"
    /\ verUrl = <<>>
    /\ verReqs = <<>>
    /\ verResult = FALSE
    /\ verExc = ""

IdleVal ==
    /\ valPc = "off"
    /\ valIn = <<>>
    /\ valVerifier = FALSE
    /\ valDead = {}
    /\ valChecked = <<>>
    /\ valOut = <<>>

IdleMain ==
    /\ mainPc = "off"
    /\ limitPerSource = 0
    /\ available = [g \in Flags |-> FALSE]
    /\ taskState = [t \in Tasks |-> "idle"]
    /\ taskResult = [t \in Tasks |-> NoResult]
    /\ intel = NoBundle
    /\ called = {}

(***************************************************************************)
(* Characters and the str methods the code uses                            *)
(***************************************************************************)

\* str.isspace() of one character
IsSpace(c) == c = " "

\* str.lower() of one character
LowerChar(c) ==
    CASE c = "A" -> "a"
      [] c = "B" -> "b"
      [] OTHER   -> c

\* str.lower()
Lower(s) == [i \in 1..Len(s) |-> LowerChar(s[i])]

\* str.strip(): leading and trailing whitespace removed
Strip(s) ==
    LET keep == {i \in 1..Len(s) : ~IsSpace(s[i])}
    IN  IF keep = {} THEN <<>>
        ELSE LET lo == CHOOSE i \in keep : \A j \in keep : i <= j
                 hi == CHOOSE i \in keep : \A j \in keep : j <= i
             IN  SubSeq(s, lo, hi)

\* dict.get(key, ""): the field, or the empty string when the key is absent
Get(item, key) == IF key \in DOMAIN item THEN item[key] ELSE <<>>

\* All sequences over S of length at most n
SeqsUpTo(S, n) == UNION {[1..k -> S] : k \in 0..n}

(***************************************************************************)
(* _dedup_items                                                            *)
(***************************************************************************)

\* The normalized key of an item: item.get(key, "").strip().lower()
NormTitle(item) == Lower(Strip(Get(item, "title")))

\* The loop of _dedup_items from position i on, with `seen` and `unique` as
\* the code holds them when it reaches items[i].
RECURSIVE DedupLoop(_, _, _, _)
DedupLoop(items, i, seen, unique) ==
    IF i > Len(items) THEN unique
    ELSE LET item  == items[i]
             title == NormTitle(item)
         IN  IF title # <<>> /\ title \notin seen
                 THEN DedupLoop(items, i + 1, seen \cup {title}, Append(unique, item))
             ELSE IF title = <<>>
                 THEN DedupLoop(items, i + 1, seen, Append(unique, item))
             ELSE DedupLoop(items, i + 1, seen, unique)

\* A slip: the empty key is remembered like any other, so a second item with
\* an empty title is dropped.
RECURSIVE DedupLoopEmptySeen(_, _, _, _)
DedupLoopEmptySeen(items, i, seen, unique) ==
    IF i > Len(items) THEN unique
    ELSE LET item  == items[i]
             title == NormTitle(item)
         IN  IF title \notin seen
                 THEN DedupLoopEmptySeen(items, i + 1, seen \cup {title}, Append(unique, item))
             ELSE DedupLoopEmptySeen(items, i + 1, seen, unique)

DedupEmptySeen(items) == DedupLoopEmptySeen(items, 1, {}, <<>>)

\* A slip: the raw title is compared, without strip() and lower().
RECURSIVE DedupLoopRaw(_, _, _, _)
DedupLoopRaw(items, i, seen, unique) ==
    IF i > Len(items) THEN unique
    ELSE LET item  == items[i]
             title == Get(item, "title")
         IN  IF title # <<>> /\ title \notin seen
                 THEN DedupLoopRaw(items, i + 1, seen \cup {title}, Append(unique, item))
             ELSE IF title = <<>>
                 THEN DedupLoopRaw(items, i + 1, seen, Append(unique, item))
             ELSE DedupLoopRaw(items, i + 1, seen, unique)

DedupRaw(items) == DedupLoopRaw(items, 1, {}, <<>>)

\* A slip: a repeated title replaces the copy kept so far and its key is
\* forgotten, so the next copy is kept again.
RECURSIVE DedupLoopForget(_, _, _, _)
DedupLoopForget(items, i, seen, unique) ==
    IF i > Len(items) THEN unique
    ELSE LET item  == items[i]
             title == NormTitle(item)
         IN  IF title # <<>> /\ title \notin seen
                 THEN DedupLoopForget(items, i + 1, seen \cup {title}, Append(unique, item))
             ELSE IF title = <<>>
                 THEN DedupLoopForget(items, i + 1, seen, Append(unique, item))
             ELSE DedupLoopForget(items, i + 1, seen \ {title}, unique)

DedupForget(items) == DedupLoopForget(items, 1, {}, <<>>)

\* A slip: an item is dropped only when the item just before it has its
\* title.
RECURSIVE DedupLoopAdjacent(_, _, _)
DedupLoopAdjacent(items, i, unique) ==
    IF i > Len(items) THEN unique
    ELSE IF i > 1 /\ NormTitle(items[i]) # <<>>
                 /\ NormTitle(items[i]) = NormTitle(items[i - 1])
        THEN DedupLoopAdjacent(items, i + 1, unique)
    ELSE DedupLoopAdjacent(items, i + 1, Append(unique, items[i]))

DedupAdjacent(items) == DedupLoopAdjacent(items, 1, <<>>)

\* _dedup_items(items, key="title")
DedupItems(items) == DedupLoop(items, 1, {}, <<>>)

(***************************************************************************)
(* filter_items                                                            *)
(***************************************************************************)

\* \w of the re module: a letter, a digit or the underscore
IsWordChar(c) == c \in {"a", "A", "b", "B"}

\* str.split(','): the pieces between the commas (one piece for a string
\* without a comma, the empty piece included)
RECURSIVE SplitComma(_, _, _)
SplitComma(s, i, piece) ==
    IF i > Len(s) THEN <<piece>>
    ELSE IF s[i] = "," THEN <<piece>> \o SplitComma(s, i + 1, <<>>)
    ELSE SplitComma(s, i + 1, Append(piece, s[i]))

NonBlank(k) == Strip(k) # <<>>

\* keywords = [k.strip() for k in keyword.split(',') if k.strip()]
Keywords(keyword) ==
    LET kept == SelectSeq(SplitComma(keyword, 1, <<>>), NonBlank)
    IN  [i \in 1..Len(kept) |-> Strip(kept[i])]

\* \b at the gap after the first p characters of s: exactly one of the two
\* neighbours is a word character (the ends of the string count as non-word)
WordBoundary(s, p) ==
    LET left  == p >= 1 /\ IsWordChar(s[p])
        right == p + 1 <= Len(s) /\ IsWordChar(s[p + 1])
    IN  left # right

\* re.escape(k) matched at `start` under (?i): the characters of k, case ignored
LiteralAt(k, s, start) ==
    /\ start + Len(k) - 1 <= Len(s)
    /\ \A j \in 1..Len(k) : LowerChar(s[start + j - 1]) = LowerChar(k[j])

\* One alternative, \b + re.escape(k) + \b, matched at `start`
AlternativeAt(k, s, start) ==
    /\ WordBoundary(s, start - 1)
    /\ LiteralAt(k, s, start)
    /\ WordBoundary(s, start + Len(k) - 1)

\* re.search(r'(?i)(' + '|'.join(alternatives) + r')', s): the join of no
\* alternative is the empty pattern, which matches every string
ReSearch(keywords, s) ==
    IF keywords = <<>> THEN TRUE
    ELSE \E n \in 1..Len(keywords) : \E start \in 1..Len(s) :
             AlternativeAt(keywords[n], s, start)

\* filter_items(items, keyword)
FilterItems(items, keyword) ==
    IF keyword = None \/ keyword = Some(<<>>) THEN items
    ELSE LET keywords == Keywords(keyword[1])
             Hit(item) == ReSearch(keywords, Get(item, "title"))
         IN  SelectSeq(items, Hit)

(***************************************************************************)
(* SpecFilter: filter_items on every list of at most MaxFilterLen items    *)
(* and every keyword of at most MaxKeywordLen characters                   *)
(***************************************************************************)

MaxFilterLen == 2
MaxKeywordLen == 3

KeywordChars == {"a", "B", "+", ",", " "}

FilterTitles ==
    { <<>>, <<"a">>, <<"A", " ", "b">>, <<"a", "b">>, <<"b", "+">>,
      <<"b", "+", " ", "a">>, <<"+">>, <<"B", ",", "a">> }

FilterItemPool == [title : FilterTitles] \cup {[url |-> "u1"]}

IdleButFilter == IdleDedup /\ IdleFetch /\ IdleExt /\ IdleMain /\ IdleVal /\ IdleVer
    /\ IdleArx /\ IdleSoc /\ IdleRep /\ IdleRate
othersFilter == <<dedupVars, fetchVars, extVars, mainVars, valVars, verVars,
    arxVars, socVars, repVars,
    rateVars>>

InitFilter ==
    /\ filterPc = "call"
    /\ filterItems \in SeqsUpTo(FilterItemPool, MaxFilterLen)
    /\ filterKeyword \in {None} \cup {Some(k) : k \in SeqsUpTo(KeywordChars, MaxKeywordLen)}
    /\ filterOut = <<>>
    /\ IdleButFilter

\* result = filter_items(items, keyword)
FilterCall ==
    /\ filterPc = "call"
    /\ filterOut' = FilterItems(filterItems, filterKeyword)
    /\ filterPc' = "done"
    /\ UNCHANGED <<filterItems, filterKeyword, othersFilter>>

NextFilter == FilterCall

SpecFilter == InitFilter /\ [][NextFilter]_vars

(***************************************************************************)
(* Claims about filter_items (checked under SpecFilter)                    *)
(***************************************************************************)

\* k occurs in s as a whole word, case ignored: an occurrence with no word
\* character directly before it and none directly after it
WholeWordIn(k, s) ==
    \E start \in 1..Len(s) :
        /\ LiteralAt(k, s, start)
        /\ ~(start >= 2 /\ IsWordChar(s[start - 1]))
        /\ ~(start + Len(k) <= Len(s) /\ IsWordChar(s[start + Len(k)]))

\* The title of the item contains at least one of the comma-separated terms
\* of the keyword as a whole word.
HasKeywordTerm(item, keyword) ==
    \E n \in 1..Len(Keywords(keyword)) :
        WholeWordIn(Keywords(keyword)[n], Get(item, "title"))

\* C10: filter_items(items, keyword) returns, in input order, exactly those
\* items whose title contains at least one of the comma-separated keyword
\* terms as a whole word, compared case-insensitively; when no keyword is
\* given it returns all items unchanged.
C10_FilterWholeWord ==
    filterPc = "done" =>
        IF filterKeyword = None \/ filterKeyword = Some(<<>>)
            THEN filterOut = filterItems
        ELSE LET Wanted(item) == HasKeywordTerm(item, filterKeyword[1])
             IN  filterOut = SelectSeq(filterItems, Wanted)

\* The same statement restricted to keywords whose terms all begin and end
\* with a word character and of which there is at least one: what is left of
\* C10 when the two diverging cases are put aside (not a claim's formula).
FilterAgreesOnWordTerms ==
    (/\ filterPc = "done"
     /\ filterKeyword # None
     /\ Keywords(filterKeyword[1]) # <<>>
     /\ \A n \in 1..Len(Keywords(filterKeyword[1])) :
            LET k == Keywords(filterKeyword[1])[n]
            IN  IsWordChar(k[1]) /\ IsWordChar(k[Len(k)]))
    => LET Wanted(item) == HasKeywordTerm(item, filterKeyword[1])
       IN  filterOut = SelectSeq(filterItems, Wanted)

(***************************************************************************)
(* SpecDedup: _dedup_items on every list of at most MaxDedupLen items      *)
(***************************************************************************)

MaxDedupLen == 3

\* Titles: empty, whitespace only, and three spellings of one normalized
\* title next to a different one.
DedupTitles ==
    { <<>>, <<" ">>, <<"a">>, <<"A">>, <<" ", "a">>, <<"A", " ">>, <<"b">> }

DedupUrls == {"u1", "u2"}

\* An item with a title, and an item without the key.
DedupItemPool ==
    [title : DedupTitles, url : DedupUrls] \cup [url : DedupUrls]

\* Everything but the dedup group, idle
IdleButDedup == IdleFilter /\ IdleFetch /\ IdleExt /\ IdleMain /\ IdleVal /\ IdleVer
    /\ IdleArx /\ IdleSoc /\ IdleRep /\ IdleRate
othersDedup == <<filterVars, fetchVars, extVars, mainVars, valVars, verVars,
    arxVars, socVars, repVars,
    rateVars>>

InitDedup ==
    /\ dedupPc = "call"
    /\ dedupItems \in SeqsUpTo(DedupItemPool, MaxDedupLen)
    /\ dedupOut = <<>>
    /\ dedupTwice = <<>>
    /\ IdleButDedup

\* result = _dedup_items(items)
DedupCall ==
    /\ dedupPc = "call"
    /\ dedupOut' = DedupItems(dedupItems)
    /\ dedupPc' = "once"
    /\ UNCHANGED <<dedupItems, dedupTwice, othersDedup>>

\* _dedup_items(result)
DedupAgain ==
    /\ dedupPc = "once"
    /\ dedupTwice' = DedupItems(dedupOut)
    /\ dedupPc' = "twice"
    /\ UNCHANGED <<dedupItems, dedupOut, othersDedup>>

NextDedup == DedupCall \/ DedupAgain

SpecDedup == InitDedup /\ [][NextDedup]_vars

(***************************************************************************)
(* Claims about _dedup_items (checked under SpecDedup)                     *)
(***************************************************************************)

\* The items of `items` at the positions in K, in input order.
RECURSIVE PickFrom(_, _, _)
PickFrom(items, K, i) ==
    IF i > Len(items) THEN <<>>
    ELSE IF i \in K THEN <<items[i]>> \o PickFrom(items, K, i + 1)
    ELSE PickFrom(items, K, i + 1)

SubseqAt(items, K) == PickFrom(items, K, 1)

\* Position i holds the first item of `items` with its normalized title.
FirstWithTitle(items, i) ==
    \A j \in 1..(i - 1) : NormTitle(items[j]) # NormTitle(items[i])

DedupReturned == dedupPc \in {"once", "twice"}

\* C5: for every input list, _dedup_items returns a subsequence of the input
\* (relative order preserved) in which, for each non-empty normalized title
\* (trimmed and lower-cased), the first input item carrying that title is
\* present and every later item carrying it is absent.
C5_DedupKeepsFirstOnly ==
    DedupReturned =>
        \E K \in SUBSET (1..Len(dedupItems)) :
            /\ dedupOut = SubseqAt(dedupItems, K)
            /\ \A i \in 1..Len(dedupItems) :
                   NormTitle(dedupItems[i]) # <<>> =>
                       (i \in K <=> FirstWithTitle(dedupItems, i))

\* C5 witness: three items, the first and the last spelled differently but
\* with one normalized title; the call has returned the first two.
C5_Witness ==
    /\ dedupPc = "once"
    /\ Len(dedupItems) = 3
    /\ Get(dedupItems[1], "title") = <<"A", " ">>
    /\ Get(dedupItems[2], "title") = <<"b">>
    /\ Get(dedupItems[3], "title") = <<" ", "a">>
    /\ dedupOut = SubSeq(dedupItems, 1, 2)

HasEmptyTitle(item) == NormTitle(item) = <<>>

\* C6: _dedup_items keeps every item whose title is empty, whitespace-only or
\* missing, however many there are and wherever they occur; they are never
\* duplicates of one another, and the empty list yields the empty list.
C6_DedupKeepsEmptyTitles ==
    DedupReturned =>
        /\ \E K \in SUBSET (1..Len(dedupItems)) :
               /\ dedupOut = SubseqAt(dedupItems, K)
               /\ \A i \in 1..Len(dedupItems) :
                      HasEmptyTitle(dedupItems[i]) => i \in K
        /\ SelectSeq(dedupOut, HasEmptyTitle) = SelectSeq(dedupItems, HasEmptyTitle)
        /\ (dedupItems = <<>> => dedupOut = <<>>)

\* C6 witness: an item without the key, one with a whitespace-only title and
\* one with the empty title, all three returned.
C6_Witness ==
    /\ dedupPc = "once"
    /\ Len(dedupItems) = 3
    /\ "title" \notin DOMAIN dedupItems[1]
    /\ "title" \in DOMAIN dedupItems[2] /\ dedupItems[2].title = <<" ">>
    /\ "title" \in DOMAIN dedupItems[3] /\ dedupItems[3].title = <<>>
    /\ dedupOut = dedupItems

\* C7: _dedup_items is idempotent: _dedup_items(_dedup_items(L)) equals
\* _dedup_items(L) for every input list L.
C7_DedupIdempotent ==
    dedupPc = "twice" => dedupTwice = dedupOut

\* C7 witness: the first call removed something, the second call returned.
C7_Witness ==
    /\ dedupPc = "twice"
    /\ Len(dedupItems) = 3
    /\ Len(dedupOut) = 2
    /\ \E i \in 1..2 : HasEmptyTitle(dedupOut[i])

(***************************************************************************)
(* The source fetchers of fetch_news.py                                    *)
(*                                                                         *)
(* A call of a function either returns a value or raises an exception of   *)
(* a class; an `except` clause is the set of classes it names.             *)
(***************************************************************************)

Ret(v) == [out |-> "return", val |-> v]
Raise(e) == [out |-> "raise", exc |-> e]

\* try: body / except classes: return []
ExceptReturnsEmpty(r, classes) ==
    IF r.out = "raise" /\ r.exc \in classes THEN Ret(<<>>) ELSE r

\* items[:limit]
Take(items, limit) ==
    IF limit >= 0
        THEN SubSeq(items, 1, IF limit < Len(items) THEN limit ELSE Len(items))
    ELSE SubSeq(items, 1, Len(items) + limit)

\* The two steps the other way round: filter_items(items[:limit], keyword)
TakeThenFilter(items, keyword, limit) == FilterItems(Take(items, limit), keyword)

\* filter_items(items, keyword)[:limit]
FilterThenTake(items, keyword, limit) == Take(FilterItems(items, keyword), limit)

(***************************************************************************)
(* HTTP responses.  requests.get either raises requests.RequestException   *)
(* (timeout, connection error, ...) or returns a response with a status    *)
(* and a body.  A body is what the parser of the fetcher makes of it: the  *)
(* rows a selector finds in an HTML page, or the value response.json()     *)
(* decodes.                                                                *)
(***************************************************************************)

HttpRaise == [kind |-> "raise"]
HttpResp(status, body) == [kind |-> "resp", status |-> status, body |-> body]

StatusOK == 200
StatusError == 503

\* How a request ended, as fetchReqs records it
ReqKind(resp) ==
    IF resp.kind = "raise" THEN "raise"
    ELSE IF resp.status # StatusOK THEN "status"
    ELSE "ok"

\* Decoded JSON values
JInvalid == [j |-> "invalid"]                   \* the body is not JSON
JNull == [j |-> "null"]
JNum == [j |-> "num"]
JStr == [j |-> "str"]                           \* a non-empty string
JList(xs) == [j |-> "list", xs |-> xs]
JObj(f) == [j |-> "obj", f |-> f]               \* f: a record, never empty

\* `for x in v`: the elements, or TypeError when v is not iterable.  A dict
\* yields its keys and a string its characters, all of them strings.
Iterate(v) ==
    CASE v.j = "list" -> Ret(v.xs)
      [] v.j = "obj"  -> Ret(<<JStr>>)
      [] v.j = "str"  -> Ret(<<JStr>>)
      [] OTHER        -> Raise("TypeError")

\* v[key] for a string key
Subscript(v, key) ==
    IF v.j = "obj"
        THEN IF key \in DOMAIN v.f THEN Ret(v.f[key]) ELSE Raise("KeyError")
    ELSE Raise("TypeError")

\* v.get(key) is an AttributeError unless v is a dict
IsDict(v) == v.j = "obj"
HasKey(v, key) == key \in DOMAIN v.f

(***************************************************************************)
(* fetch_hackernews                                                        *)
(***************************************************************************)

max_pages == 5

\* One '.athing' row: with or without its '.titleline a' element
HnItem(row) ==
    [source |-> "Hacker News", title |-> row.title,
     url |-> IF row.href = "item?id=1"
                 THEN "https://news.ycombinator.com/item?id=1" ELSE row.href,
     heat |-> "0 points", time |-> ""]

\* The for loop over the rows of one page: page_items
RECURSIVE HnPageItems(_, _)
HnPageItems(rows, i) ==
    IF i > Len(rows) THEN <<>>
    ELSE IF ~rows[i].titleline THEN HnPageItems(rows, i + 1)
    ELSE <<HnItem(rows[i])>> \o HnPageItems(rows, i + 1)

\* The pass without the time.sleep(0.5) of line 133
HnIterationNoSleep(resp, items, page, keyword, limit) ==
    IF resp.kind = "raise" \/ resp.status # StatusOK \/ resp.body = <<>>
        THEN [items |-> items, page |-> page, slept |-> FALSE, brk |-> TRUE]
    ELSE LET grown == items \o FilterItems(HnPageItems(resp.body, 1), keyword)
         IN  IF Len(grown) >= limit
                 THEN [items |-> grown, page |-> page, slept |-> FALSE, brk |-> TRUE]
             ELSE [items |-> grown, page |-> page + 1, slept |-> FALSE, brk |-> FALSE]

\* One pass of the while loop for the response `resp`:
\* [items, page, sleeps, break]
HnIteration(resp, items, page, keyword, limit) ==
    IF resp.kind = "raise" \/ resp.status # StatusOK \/ resp.body = <<>>
        THEN [items |-> items, page |-> page, slept |-> FALSE, brk |-> TRUE]
    ELSE LET grown == items \o FilterItems(HnPageItems(resp.body, 1), keyword)
         IN  IF Len(grown) >= limit
                 THEN [items |-> grown, page |-> page, slept |-> FALSE, brk |-> TRUE]
             ELSE [items |-> grown, page |-> page + 1, slept |-> TRUE, brk |-> FALSE]

\* The condition of the while loop
HnContinue(items, page, limit) == Len(items) < limit /\ page <= max_pages

(***************************************************************************)
(* fetch_github                                                            *)
(***************************************************************************)

NotSpace(c) == ~IsSpace(c)

\* One 'article.Box-row': the row is skipped without 'h2 a', and h2['href']
\* is a KeyError, caught for the row, when the attribute is missing
GithubItem(row) ==
    [source |-> "GitHub Trending",
     title |-> SelectSeq(row.name, NotSpace) \o <<" ", "-", " ">> \o row.desc,
     url |-> "https://github.com/r", heat |-> " stars", time |-> "Today"]

RECURSIVE GithubItems(_, _)
GithubItems(rows, i) ==
    IF i > Len(rows) THEN <<>>
    ELSE IF ~rows[i].h2 THEN GithubItems(rows, i + 1)
    ELSE IF ~rows[i].href THEN GithubItems(rows, i + 1)
    ELSE <<GithubItem(rows[i])>> \o GithubItems(rows, i + 1)

FetchGithub(resp, limit, keyword) ==
    IF resp.kind = "raise" THEN Ret(<<>>)
    ELSE Ret(FilterThenTake(GithubItems(resp.body, 1), keyword, limit))

(***************************************************************************)
(* fetch_36kr                                                              *)
(***************************************************************************)

KrItem(row) ==
    [source |-> "36Kr", title |-> row.title, url |-> "https://36kr.com/n",
     time |-> "", heat |-> ""]

\* The for loop over '.newsflash-item': select_one('.item-title') is None
\* when the element is missing, and None.get_text is an AttributeError; a
\* missing href attribute is a KeyError
RECURSIVE KrItems(_, _, _)
KrItems(rows, i, items) ==
    IF i > Len(rows) THEN Ret(items)
    ELSE IF ~rows[i].itemtitle THEN Raise("AttributeError")
    ELSE IF ~rows[i].href THEN Raise("KeyError")
    ELSE KrItems(rows, i + 1, Append(items, KrItem(rows[i])))

KrCaught == {"RequestException", "AttributeError", "KeyError", "TypeError"}

KrBody(resp, limit, keyword) ==
    IF resp.kind = "raise" THEN Raise("RequestException")
    ELSE LET r == KrItems(resp.body, 1, <<>>)
         IN  IF r.out = "raise" THEN r
             ELSE Ret(FilterThenTake(r.val, keyword, limit))

Fetch36kr(resp, limit, keyword) ==
    ExceptReturnsEmpty(KrBody(resp, limit, keyword), KrCaught)

(***************************************************************************)
(* fetch_v2ex                                                              *)
(***************************************************************************)

V2exItem(t) ==
    [source |-> "V2EX", title |-> t.f.title, url |-> t.f.url,
     heat |-> "0 replies", time |-> "Hot"]

\* The for loop over the decoded topics
RECURSIVE V2exItems(_, _, _)
V2exItems(ts, i, items) ==
    IF i > Len(ts) THEN Ret(items)
    ELSE LET t == ts[i]
         IN  IF ~IsDict(t) THEN Raise("AttributeError")      \* t.get('replies', 0)
             ELSE IF ~HasKey(t, "title") THEN Raise("KeyError")
             ELSE IF ~HasKey(t, "url") THEN Raise("KeyError")
             ELSE V2exItems(ts, i + 1, Append(items, V2exItem(t)))

V2exCaught == {"RequestException", "ValueError", "KeyError"}

\* The body of the try block; the status of the response is not looked at
V2exBody(resp, limit, keyword) ==
    IF resp.kind = "raise" THEN Raise("RequestException")
    ELSE IF resp.body = JInvalid THEN Raise("ValueError")     \* .json()
    ELSE LET ts == Iterate(resp.body)
         IN  IF ts.out = "raise" THEN ts
             ELSE LET r == V2exItems(ts.val, 1, <<>>)
                  IN  IF r.out = "raise" THEN r
                      ELSE Ret(FilterThenTake(r.val, keyword, limit))

FetchV2ex(resp, limit, keyword) ==
    ExceptReturnsEmpty(V2exBody(resp, limit, keyword), V2exCaught)

(***************************************************************************)
(* fetch_wallstreetcn                                                      *)
(***************************************************************************)

WscnItem(res) ==
    [source |-> "Wall Street CN",
     title |-> IF HasKey(res, "title") THEN res.f.title ELSE res.f.content_short,
     url |-> "uri",
     time |-> IF HasKey(res, "display_time") THEN "HH:MM" ELSE ""]

\* The for loop over data['data']['items']
RECURSIVE WscnItems(_, _, _)
WscnItems(es, i, items) ==
    IF i > Len(es) THEN Ret(items)
    ELSE LET e == es[i]
         IN  IF ~IsDict(e) THEN Raise("AttributeError")       \* item.get('resource')
             ELSE IF ~HasKey(e, "resource") \/ e.f.resource = JNull
                 THEN WscnItems(es, i + 1, items)
             ELSE IF ~IsDict(e.f.resource) THEN Raise("AttributeError")
             ELSE IF HasKey(e.f.resource, "title") \/ HasKey(e.f.resource, "content_short")
                 THEN WscnItems(es, i + 1, Append(items, WscnItem(e.f.resource)))
             ELSE WscnItems(es, i + 1, items)

WscnCaught == {"RequestException", "ValueError", "KeyError"}

\* The body of the try block; the status of the response is not looked at
WscnBody(resp, limit, keyword) ==
    IF resp.kind = "raise" THEN Raise("RequestException")
    ELSE IF resp.body = JInvalid THEN Raise("ValueError")     \* .json()
    ELSE LET d == Subscript(resp.body, "data")
         IN  IF d.out = "raise" THEN d
             ELSE LET its == Subscript(d.val, "items")
                  IN  IF its.out = "raise" THEN its
                      ELSE LET es == Iterate(its.val)
                           IN  IF es.out = "raise" THEN es
                               ELSE LET r == WscnItems(es.val, 1, <<>>)
                                    IN  IF r.out = "raise" THEN r
                                        ELSE Ret(FilterThenTake(r.val, keyword, limit))

FetchWallstreetcn(resp, limit, keyword) ==
    ExceptReturnsEmpty(WscnBody(resp, limit, keyword), WscnCaught)

(***************************************************************************)
(* SpecFetch: one call fetcher(limit, keyword) of one of the five source   *)
(* fetchers, against every response of the bounded sets below              *)
(***************************************************************************)

\* The list a fetcher has built from a response when it reaches its
\* filter_items call: page_items for one page of Hacker News, `items` for
\* the others; empty when the fetcher never gets there
HnParsed(resp) ==
    IF resp.kind = "raise" \/ resp.status # StatusOK \/ resp.body = <<>> THEN <<>>
    ELSE HnPageItems(resp.body, 1)

GithubParsed(resp) ==
    IF resp.kind = "raise" THEN <<>> ELSE GithubItems(resp.body, 1)

KrParsed(resp) ==
    IF resp.kind = "raise" THEN <<>>
    ELSE LET r == KrItems(resp.body, 1, <<>>)
         IN  IF r.out = "raise" THEN <<>> ELSE r.val

V2exParsed(resp) ==
    IF resp.kind = "raise" \/ resp.body = JInvalid THEN <<>>
    ELSE LET ts == Iterate(resp.body)
         IN  IF ts.out = "raise" THEN <<>>
             ELSE LET r == V2exItems(ts.val, 1, <<>>)
                  IN  IF r.out = "raise" THEN <<>> ELSE r.val

WscnParsed(resp) ==
    IF resp.kind = "raise" \/ resp.body = JInvalid THEN <<>>
    ELSE LET d == Subscript(resp.body, "data")
         IN  IF d.out = "raise" THEN <<>>
             ELSE LET its == Subscript(d.val, "items")
                  IN  IF its.out = "raise" THEN <<>>
                      ELSE LET es == Iterate(its.val)
                           IN  IF es.out = "raise" THEN <<>>
                               ELSE LET r == WscnItems(es.val, 1, <<>>)
                                    IN  IF r.out = "raise" THEN <<>> ELSE r.val

MaxLimit == 2
MaxRows == 2

\* Rows of the Hacker News page: two titled rows and one without its
\* '.titleline a' element
HnRowPool ==
    { [titleline |-> TRUE, title |-> <<"a">>, href |-> "item?id=1"],
      [titleline |-> TRUE, title |-> <<"B">>, href |-> "http://x"],
      [titleline |-> FALSE, title |-> <<>>, href |-> ""] }

\* A response with an error status carries an error document: a page
\* without rows, or a JSON error value.
HnResponses ==
    {HttpRaise, HttpResp(StatusError, <<>>)}
        \cup {HttpResp(StatusOK, rows) : rows \in SeqsUpTo(HnRowPool, MaxRows)}

GithubRowPool ==
    { [h2 |-> TRUE, href |-> TRUE, name |-> <<"a">>, desc |-> <<>>],
      [h2 |-> TRUE, href |-> TRUE, name |-> <<"B", " ">>, desc |-> <<"b">>],
      [h2 |-> TRUE, href |-> FALSE, name |-> <<"a">>, desc |-> <<>>],
      [h2 |-> FALSE, href |-> FALSE, name |-> <<>>, desc |-> <<>>] }

GithubResponses ==
    {HttpRaise, HttpResp(StatusError, <<>>)}
        \cup {HttpResp(StatusOK, rows) : rows \in SeqsUpTo(GithubRowPool, MaxRows)}

KrRowPool ==
    { [itemtitle |-> TRUE, href |-> TRUE, title |-> <<"a">>],
      [itemtitle |-> TRUE, href |-> TRUE, title |-> <<"B">>],
      [itemtitle |-> TRUE, href |-> FALSE, title |-> <<"a">>],
      [itemtitle |-> FALSE, href |-> FALSE, title |-> <<>>] }

KrResponses ==
    {HttpRaise, HttpResp(StatusError, <<>>)}
        \cup {HttpResp(StatusOK, rows) : rows \in SeqsUpTo(KrRowPool, MaxRows)}

\* Topics of hot.json: two well-formed, one without its title, and null
V2exTopicPool ==
    { JObj([title |-> <<"a">>, url |-> "u"]),
      JObj([title |-> <<"B">>, url |-> "u"]),
      JObj([url |-> "u"]),
      JNull }

\* What an API answers with an error status: no JSON at all (an HTML error
\* page), null, or an error object such as {"message": "..."}
JsonErrorBodies == {JInvalid, JNull, JObj([message |-> JStr])}

V2exResponses ==
    {HttpRaise}
        \cup {HttpResp(StatusError, b) : b \in JsonErrorBodies}
        \cup {HttpResp(StatusOK, b) : b \in JsonErrorBodies}
        \cup {HttpResp(StatusOK, JList(ts)) : ts \in SeqsUpTo(V2exTopicPool, MaxRows)}

\* Entries of data.items: null, without resource, with resource null, with a
\* resource that is no object, with title, with content_short only, with
\* neither
WscnEntryPool ==
    { JNull,
      JObj([id |-> JNum]),
      JObj([resource |-> JNull]),
      JObj([resource |-> JStr]),
      JObj([resource |-> JObj([title |-> <<"a">>, display_time |-> JNum])]),
      JObj([resource |-> JObj([content_short |-> <<"B">>])]),
      JObj([resource |-> JObj([uri |-> JStr])]) }

WscnBodies ==
    JsonErrorBodies
        \cup { JList(<<>>),
               JObj([data |-> JNull]),
               JObj([data |-> JObj([total |-> JNum])]),
               JObj([data |-> JObj([items |-> JNull])]) }
        \cup { JObj([data |-> JObj([items |-> JList(es)])]) :
                   es \in SeqsUpTo(WscnEntryPool, MaxRows) }

WscnResponses ==
    {HttpRaise}
        \cup {HttpResp(StatusError, b) : b \in JsonErrorBodies}
        \cup {HttpResp(StatusOK, b) : b \in WscnBodies}

IdleButFetch == IdleDedup /\ IdleFilter /\ IdleExt /\ IdleMain /\ IdleVal /\ IdleVer
    /\ IdleArx /\ IdleSoc /\ IdleRep /\ IdleRate
othersFetch == <<dedupVars, filterVars, extVars, mainVars, valVars, verVars,
    arxVars, socVars, repVars,
    rateVars>>

InitFetch ==
    /\ fetchPc = "idle"
    /\ fetchSource = "none"
    /\ fetchLimit \in 1..MaxLimit
    /\ fetchKeyword \in {None, Some(<<"a">>)}
    /\ hnPage = 0
    /\ hnItems = <<>>
    /\ fetchReqs = <<>>
    /\ fetchResp = [kind |-> "none"]
    /\ fetchSleeps = 0
    /\ fetchResult = <<>>
    /\ fetchExc = ""
    /\ fetchParsed = <<>>
    /\ IdleButFetch

\* The call returns or raises with r
FetchEnds(r) ==
    IF r.out = "return"
        THEN fetchPc' = "returned" /\ fetchResult' = r.val /\ fetchExc' = ""
    ELSE fetchPc' = "raised" /\ fetchResult' = <<>> /\ fetchExc' = r.exc

\* fetch_hackernews(limit, keyword) is entered: news_items = [], page = 1
CallHackernews ==
    /\ fetchPc = "idle"
    /\ fetchSource' = "hn"
    /\ hnPage' = 1
    /\ hnItems' = <<>>
    /\ IF HnContinue(<<>>, 1, fetchLimit)
           THEN fetchPc' = "hn" /\ fetchResult' = fetchResult
       ELSE fetchPc' = "returned" /\ fetchResult' = Take(<<>>, fetchLimit)
    /\ UNCHANGED <<fetchLimit, fetchKeyword, fetchReqs, fetchResp, fetchSleeps,
                   fetchExc, fetchParsed, othersFetch>>

\* One pass of the while loop: the request for page `page`, the parse of
\* the rows, the filter, then break, or page += 1 and sleep; when the loop
\* is left, return news_items[:limit]
HnFetchPage ==
    /\ fetchPc = "hn"
    /\ \E resp \in HnResponses :
        LET it == HnIteration(resp, hnItems, hnPage, fetchKeyword, fetchLimit)
        IN  /\ fetchReqs' = Append(fetchReqs, ReqKind(resp))
            /\ fetchResp' = resp
            /\ hnItems' = it.items
            /\ fetchParsed' = fetchParsed \o HnParsed(resp)
            /\ hnPage' = it.page
            /\ fetchSleeps' = IF it.slept THEN fetchSleeps + 1 ELSE fetchSleeps
            /\ IF it.brk \/ ~HnContinue(it.items, it.page, fetchLimit)
                   THEN fetchPc' = "returned" /\ fetchResult' = Take(it.items, fetchLimit)
               ELSE fetchPc' = "hn" /\ fetchResult' = fetchResult
    /\ UNCHANGED <<fetchSource, fetchLimit, fetchKeyword, fetchExc, othersFetch>>

\* fetch_github(limit, keyword)
CallGithub ==
    /\ fetchPc = "idle"
    /\ fetchSource' = "github"
    /\ \E resp \in GithubResponses :
        /\ fetchReqs' = Append(fetchReqs, ReqKind(resp))
        /\ fetchResp' = resp
        /\ fetchParsed' = GithubParsed(resp)
        /\ FetchEnds(FetchGithub(resp, fetchLimit, fetchKeyword))
    /\ UNCHANGED <<fetchLimit, fetchKeyword, hnPage, hnItems, fetchSleeps, othersFetch>>

\* fetch_36kr(limit, keyword)
Call36kr ==
    /\ fetchPc = "idle"
    /\ fetchSource' = "36kr"
    /\ \E resp \in KrResponses :
        /\ fetchReqs' = Append(fetchReqs, ReqKind(resp))
        /\ fetchResp' = resp
        /\ fetchParsed' = KrParsed(resp)
        /\ FetchEnds(Fetch36kr(resp, fetchLimit, fetchKeyword))
    /\ UNCHANGED <<fetchLimit, fetchKeyword, hnPage, hnItems, fetchSleeps, othersFetch>>

\* fetch_v2ex(limit, keyword)
CallV2ex ==
    /\ fetchPc = "idle"
    /\ fetchSource' = "v2ex"
    /\ \E resp \in V2exResponses :
        /\ fetchReqs' = Append(fetchReqs, ReqKind(resp))
        /\ fetchResp' = resp
        /\ fetchParsed' = V2exParsed(resp)
        /\ FetchEnds(FetchV2ex(resp, fetchLimit, fetchKeyword))
    /\ UNCHANGED <<fetchLimit, fetchKeyword, hnPage, hnItems, fetchSleeps, othersFetch>>

\* fetch_wallstreetcn(limit, keyword)
CallWallstreetcn ==
    /\ fetchPc = "idle"
    /\ fetchSource' = "wallstreetcn"
    /\ \E resp \in WscnResponses :
        /\ fetchReqs' = Append(fetchReqs, ReqKind(resp))
        /\ fetchResp' = resp
        /\ fetchParsed' = WscnParsed(resp)
        /\ FetchEnds(FetchWallstreetcn(resp, fetchLimit, fetchKeyword))
    /\ UNCHANGED <<fetchLimit, fetchKeyword, hnPage, hnItems, fetchSleeps, othersFetch>>

NextFetch ==
    \/ CallHackernews
    \/ HnFetchPage
    \/ CallGithub
    \/ Call36kr
    \/ CallV2ex
    \/ CallWallstreetcn

SpecFetch == InitFetch /\ [][NextFetch]_vars

(***************************************************************************)
(* Claims about the source fetchers (checked under SpecFetch)              *)
(***************************************************************************)

FetchEnded == fetchPc \in {"returned", "raised"}

\* Some request of the call raised or was answered with an error status
SomeRequestFailed ==
    \E i \in 1..Len(fetchReqs) : fetchReqs[i] \in {"raise", "status"}

\* C3: for each source fetcher, if an underlying HTTP call raises or returns
\* a non-success status, on whichever request of the fetch it happens, the
\* fetcher returns the empty list and does not propagate an exception.
C3_FailedRequestReturnsEmpty ==
    (FetchEnded /\ SomeRequestFailed) =>
        (fetchPc = "returned" /\ fetchResult = <<>>)

\* The part of C3 the code keeps: a request that raises never leaves the
\* fetcher as an exception (not a claim's formula).
RaisedRequestIsCaught ==
    (FetchEnded /\ fetchReqs # <<>> /\ fetchReqs[Len(fetchReqs)] = "raise")
        => fetchPc = "returned"

\* The decoded JSON has not the shape the fetcher walks down to its list:
\* it is no JSON at all, or an object or null stands where a list or a
\* mapping is expected
TopLevelMalformed ==
    /\ fetchResp.kind = "resp"
    /\ \/ /\ fetchSource = "v2ex"
          /\ fetchResp.body.j # "list"
       \/ /\ fetchSource = "wallstreetcn"
          /\ \/ fetchResp.body.j # "obj"
             \/ ~HasKey(fetchResp.body, "data")
             \/ fetchResp.body.f.data.j # "obj"
             \/ ~HasKey(fetchResp.body.f.data, "items")
             \/ fetchResp.body.f.data.f.items.j # "list"

\* The list is there and one of its rows or entries lacks an element or a
\* field the fetcher reads, or is no mapping at all
EntryMalformed ==
    /\ fetchResp.kind = "resp"
    /\ ~TopLevelMalformed
    /\ \/ /\ fetchSource = "hn"
          /\ \E i \in 1..Len(fetchResp.body) : ~fetchResp.body[i].titleline
       \/ /\ fetchSource = "github"
          /\ \E i \in 1..Len(fetchResp.body) :
                 ~fetchResp.body[i].h2 \/ ~fetchResp.body[i].href
       \/ /\ fetchSource = "36kr"
          /\ \E i \in 1..Len(fetchResp.body) :
                 ~fetchResp.body[i].itemtitle \/ ~fetchResp.body[i].href
       \/ /\ fetchSource = "v2ex"
          /\ \E i \in 1..Len(fetchResp.body.xs) :
                 LET t == fetchResp.body.xs[i]
                 IN  ~IsDict(t) \/ ~HasKey(t, "title") \/ ~HasKey(t, "url")
       \/ /\ fetchSource = "wallstreetcn"
          /\ \E i \in 1..Len(fetchResp.body.f.data.f.items.xs) :
                 LET e == fetchResp.body.f.data.f.items.xs[i]
                 IN  \/ ~IsDict(e)
                     \/ /\ HasKey(e, "resource")
                        /\ e.f.resource.j \notin {"obj", "null"}

\* C4: no source fetcher raises past its boundary on a parse failure: when
\* the response is received but its payload is malformed (invalid JSON, JSON
\* of an unexpected shape, a missing expected field or element), the fetcher
\* returns (the empty list, when the payload as a whole cannot be read)
\* instead of letting an exception escape.
C4_ParseFailureNeverEscapes ==
    FetchEnded =>
        /\ TopLevelMalformed => (fetchPc = "returned" /\ fetchResult = <<>>)
        /\ EntryMalformed => fetchPc = "returned"

\* What the except clauses do cover: invalid JSON and a missing key
\* (ValueError, KeyError) give the empty list (not a claim's formula).
InvalidJsonReturnsEmpty ==
    (/\ FetchEnded
     /\ fetchSource \in {"v2ex", "wallstreetcn"}
     /\ fetchResp.kind = "resp"
     /\ fetchResp.body = JInvalid)
    => (fetchPc = "returned" /\ fetchResult = <<>>)

(***************************************************************************)
(* The collector: intel_collector.py                                       *)
(*                                                                         *)
(* The source fetchers and the sensors are seen from the collector as      *)
(* calls that return a list or raise.                                      *)
(***************************************************************************)

Min(a, b) == IF a < b THEN a ELSE b
Range(seq) == {seq[i] : i \in 1..Len(seq)}

\* source_tasks: the category and the display name of each fetcher
Category(f) ==
    CASE f = "hn"           -> "tech_trends"
      [] f = "github"       -> "tech_trends"
      [] f = "36kr"         -> "capital_flow"
      [] f = "wallstreetcn" -> "capital_flow"
      [] f = "v2ex"         -> "community"

Name(f) ==
    CASE f = "hn"           -> "Hacker News"
      [] f = "github"       -> "GitHub"
      [] f = "36kr"         -> "36Kr"
      [] f = "wallstreetcn" -> "WallStreetCN"
      [] f = "v2ex"         -> "V2EX"

\* The "source" field each fetcher of fetch_news.py writes into its items
SourceOf(f) ==
    CASE f = "hn"           -> "Hacker News"
      [] f = "github"       -> "GitHub Trending"
      [] f = "36kr"         -> "36Kr"
      [] f = "wallstreetcn" -> "Wall Street CN"
      [] f = "v2ex"         -> "V2EX"

\* A title that is no string: fetch_v2ex copies t['title'] from the decoded
\* JSON as it is, so a null title arrives as None.  The one element is not a
\* character, so no string equals this value.
NullTitle == <<"None">>

\* The title of the i-th entry each site shows.  The sites share titles up to
\* case and surrounding blanks, inside a category and across categories.
SiteTitle(f, i) ==
    CASE f = "hn"           -> <<<<"a">>, <<"b">>, <<"A", " ">>>>[((i - 1) % 3) + 1]
      [] f = "github"       -> <<<<"A", " ">>, <<"a">>, <<"b">>>>[((i - 1) % 3) + 1]
      [] f = "36kr"         -> <<<<"A">>, <<>>, <<"A">>>>[((i - 1) % 3) + 1]
      [] f = "wallstreetcn" -> <<<<" ", "a">>, <<"b">>, <<"A">>>>[((i - 1) % 3) + 1]
      [] f = "v2ex"         -> <<<<"b">>, <<"B">>, <<"b", " ">>>>[((i - 1) % 3) + 1]

SiteItem(f, title) ==
    [source |-> SourceOf(f), title |-> title, url |-> "u"]

\* The first n entries of the site of fetcher f
SiteItems(f, n) == [i \in 1..n |-> SiteItem(f, SiteTitle(f, i))]

\* What a call func(limit=limit) of a fetcher can come back with: an
\* exception that escapes it, or at most `limit` items.  The JSON sources
\* can hand on an item whose title is null.
FetcherOutcomes(f, limit) ==
    {Raise("TypeError")}
        \cup {Ret(SiteItems(f, n)) : n \in 0..limit}
        \cup (IF f = "v2ex" /\ limit > 0
                  THEN {Ret(<<SiteItem(f, NullTitle)>>)} ELSE {})

\* [{**item, "category": name} for item in items]
Tag(item, name) ==
    [k \in DOMAIN item \cup {"category"} |->
        IF k = "category" THEN name ELSE item[k]]

Tagged(items, name) == [i \in 1..Len(items) |-> Tag(items[i], name)]

\* The body of the as_completed loop for the future of fetcher f, with the
\* exception of future.result() let through instead of caught
CollectStepNoTry(res, f, outcome) ==
    IF outcome.out = "raise" THEN outcome
    ELSE Ret([res EXCEPT ![Category(f)] = @ \o Tagged(outcome.val, Name(f))])

\* ... with the last item of the source left out
CollectStepShort(res, f, outcome) ==
    IF outcome.out = "raise" \/ outcome.val = <<>> THEN Ret(res)
    ELSE Ret([res EXCEPT ![Category(f)] =
                 @ \o Tagged(SubSeq(outcome.val, 1, Len(outcome.val) - 1), Name(f))])

\* ... with every item put into the first bucket
CollectStepOneBucket(res, f, outcome) ==
    IF outcome.out = "raise" THEN Ret(res)
    ELSE Ret([res EXCEPT !["tech_trends"] = @ \o Tagged(outcome.val, Name(f))])

\* The body of the as_completed loop for the future of fetcher f:
\*   try: items = future.result(); results[category].extend(tagged items)
\*   except Exception: a warning
CollectStep(res, f, outcome) ==
    IF outcome.out = "raise" THEN Ret(res)
    ELSE Ret([res EXCEPT ![Category(f)] = @ \o Tagged(outcome.val, Name(f))])

NoResults == [c \in ExternalCategories |-> <<>>]

\* The whole as_completed loop when the futures complete in `order` and hold
\* `outs`: the results, or the exception that leaves the loop
RECURSIVE CollectAll(_, _, _, _)
CollectAll(order, outs, i, res) ==
    IF i > Len(order) THEN Ret(res)
    ELSE LET r == CollectStep(res, order[i], outs[order[i]])
         IN  IF r.out = "raise" THEN r
             ELSE CollectAll(order, outs, i + 1, r.val)

\* The orders in which the five futures can complete
CompletionOrders ==
    {o \in [1..Cardinality(Fetchers) -> Fetchers] :
        \A i, j \in DOMAIN o : i # j => o[i] # o[j]}

\* The as_completed loop after k rounds, over every completion order and
\* every outcome of the fetchers: the futures yielded so far, with the
\* results or the exception that has left the loop
RECURSIVE LoopStates(_, _)
LoopStates(k, limit) ==
    IF k = 0 THEN {[yielded |-> {}, r |-> Ret(NoResults)]}
    ELSE UNION {
             IF st.r.out = "raise" THEN {st}
             ELSE UNION {
                      {[yielded |-> st.yielded \cup {f},
                        r |-> CollectStep(st.r.val, f, o)] :
                           o \in FetcherOutcomes(f, limit)} :
                      f \in Fetchers \ st.yielded} :
             st \in LoopStates(k - 1, limit)}

\* Everything a call _fetch_external_sources(limit) can come back with: what
\* CollectAll gives over all CompletionOrders and outcomes
ExternalReturns(limit) ==
    {st.r : st \in LoopStates(Cardinality(Fetchers), limit)}

(***************************************************************************)
(* _fetch_external_sources, step by step                                   *)
(***************************************************************************)

ExtLimit == 2

IdleButExt == IdleDedup /\ IdleFilter /\ IdleFetch /\ IdleMain /\ IdleVal /\ IdleVer
    /\ IdleArx /\ IdleSoc /\ IdleRep /\ IdleRate
othersExt == <<dedupVars, filterVars, fetchVars, mainVars, valVars, verVars,
    arxVars, socVars, repVars,
    rateVars>>

InitExt ==
    /\ IdleButExt
    /\ extPc = "start"
    /\ extLimit \in 1..ExtLimit
    /\ futState = [f \in Fetchers |-> "idle"]
    /\ futResult = [f \in Fetchers |-> NoResult]
    /\ extYielded = {}
    /\ results = NoResults
    /\ extReturn = NoResult

\* executor.submit(func, limit=limit) for the five fetchers; the pool has
\* five workers, so every task starts
ExtSubmit ==
    /\ extPc = "start"
    /\ extPc' = "collect"
    /\ futState' = [f \in Fetchers |-> "running"]
    /\ UNCHANGED <<extLimit, futResult, extYielded, results, extReturn, othersExt>>

\* A fetcher task that extends the result list itself, in its worker thread
FetcherEndsAndMerges(f) ==
    /\ futState[f] = "running"
    /\ \E o \in FetcherOutcomes(f, extLimit) :
           /\ futResult' = [futResult EXCEPT ![f] = o]
           /\ LET r == CollectStep(results, f, o)
              IN  results' = IF r.out = "raise" THEN results ELSE r.val
    /\ futState' = [futState EXCEPT ![f] = "done"]
    /\ UNCHANGED <<extPc, extLimit, extYielded, extReturn, othersExt>>

\* A fetcher task comes to its end in its worker thread
FetcherEnds(f) ==
    /\ futState[f] = "running"
    /\ \E o \in FetcherOutcomes(f, extLimit) :
           futResult' = [futResult EXCEPT ![f] = o]
    /\ futState' = [futState EXCEPT ![f] = "done"]
    /\ UNCHANGED <<extPc, extLimit, extYielded, results, extReturn, othersExt>>

\* One round of `for future in as_completed(future_map)`: a finished future
\* not yet yielded is yielded, whatever the other tasks are doing
ExtCollect(f) ==
    /\ extPc = "collect"
    /\ futState[f] = "done"
    /\ f \notin extYielded
    /\ extYielded' = extYielded \cup {f}
    /\ LET r == CollectStep(results, f, futResult[f])
       IN  IF r.out = "raise"
               THEN extPc' = "failing" /\ UNCHANGED results
           ELSE results' = r.val /\ UNCHANGED extPc
    /\ UNCHANGED <<extLimit, futState, futResult, extReturn, othersExt>>

\* `return results` as soon as the loop has yielded some future, with no wait
\* for the other workers
ExtReturnEarly ==
    /\ extPc = "collect"
    /\ extYielded # {}
    /\ extPc' = "returned"
    /\ extReturn' = Ret(results)
    /\ UNCHANGED <<extLimit, futState, futResult, extYielded, results, othersExt>>

\* The end of the `with` block joins the workers; then `return results`, or
\* the exception that left the loop goes on to the caller
ExtReturn ==
    /\ \/ extPc = "collect" /\ extYielded = Fetchers
       \/ extPc = "failing"
    /\ \A f \in Fetchers : futState[f] = "done"
    /\ IF extPc = "failing"
           THEN extPc' = "raised" /\ UNCHANGED extReturn
       ELSE extPc' = "returned" /\ extReturn' = Ret(results)
    /\ UNCHANGED <<extLimit, futState, futResult, extYielded, results, othersExt>>

NextExt ==
    \/ ExtSubmit
    \/ \E f \in Fetchers : FetcherEnds(f)
    \/ \E f \in Fetchers : ExtCollect(f)
    \/ ExtReturn

SpecExt == InitExt /\ [][NextExt]_vars

\* The items of the list xs that carry the category tag `name`
TaggedWith(xs, name) == SelectSeq(xs, LAMBDA x : x.category = name)

\* C2: when any subset of the five fetcher tasks raises, the call of
\* _fetch_external_sources still returns normally, the failing sources
\* contribute no items, and every item returned by each non-failing source is
\* present, tagged, in the category list of that source.
C2_FailingSourcesIsolated ==
    /\ extPc \notin {"failing", "raised"}
    /\ extPc = "returned" =>
           /\ extReturn.out = "return"
           /\ \A f \in Fetchers :
                  LET list == extReturn.val[Category(f)]
                  IN  IF futResult[f].out = "raise"
                          THEN TaggedWith(list, Name(f)) = <<>>
                      ELSE \A i \in 1..Len(futResult[f].val) :
                               Tag(futResult[f].val[i], Name(f)) \in Range(list)

\* The call has returned, one fetcher had raised and the other fetcher of its
\* category had returned items
C2_Witness ==
    /\ extPc = "returned"
    /\ \E f, g \in Fetchers :
           /\ f # g
           /\ Category(f) = Category(g)
           /\ futResult[f].out = "raise"
           /\ futResult[g].out = "return"
           /\ Len(futResult[g].val) = 2
           /\ Len(extReturn.val[Category(g)]) = 2

(***************************************************************************)
(* validate_grok_report                                                    *)
(*                                                                         *)
(* A report is a sequence of segments: runs of text and Markdown links     *)
(* [title](url), the url a sequence of characters.                         *)
(***************************************************************************)

TextSeg(s) == [t |-> "text", s |-> s, url |-> <<>>]
LinkSeg(title, url) == [t |-> "link", s |-> title, url |-> url]
IsLink(seg) == seg.t = "link"

\* The marker put behind a link that failed verification
FailedMarker == TextSeg(" **(404)**")

skip_domains ==
    << <<"t","w","i","t","t","e","r",".","c","o","m">>,
       <<"x",".","c","o","m">>,
       <<"w","e","i","b","o",".","c","o","m">>,
       <<"x","i","a","o","h","o","n","g","s","h","u",".","c","o","m">> >>

\* sub in s, for two strings
Contains(s, sub) ==
    \E i \in 1..(Len(s) - Len(sub) + 1) : SubSeq(s, i, i + Len(sub) - 1) = sub

\* any(domain in url for domain in skip_domains)
SkipListed(url) == \E d \in DOMAIN skip_domains : Contains(url, skip_domains[d])

\* validated_content.replace(old_link, new_link): every occurrence of the
\* link gets the marker behind it
RECURSIVE ReplaceLink(_, _, _)
ReplaceLink(content, link, i) ==
    IF i > Len(content) THEN <<>>
    ELSE (IF content[i] = link THEN <<link, FailedMarker>> ELSE <<content[i]>>)
             \o ReplaceLink(content, link, i + 1)

\* The for loop over the matches; `dead` are the urls verify_link rejects
RECURSIVE ValidateLoop(_, _, _, _)
ValidateLoop(matches, i, content, dead) ==
    IF i > Len(matches) THEN content
    ELSE IF SkipListed(matches[i].url)
        THEN ValidateLoop(matches, i + 1, content, dead)
    ELSE IF matches[i].url \in dead
        THEN ValidateLoop(matches, i + 1, ReplaceLink(content, matches[i], 1), dead)
    ELSE ValidateLoop(matches, i + 1, content, dead)

ValidateGrokReport(content, verifier, dead) ==
    IF ~verifier THEN content
    ELSE LET matches == SelectSeq(content, IsLink)
         IN  IF matches = <<>> THEN content
             ELSE ValidateLoop(matches, 1, content, dead)

\* The urls of a report that verify_link is asked about
CheckedUrls(content) ==
    {content[i].url : i \in {j \in DOMAIN content :
                                IsLink(content[j]) /\ ~SkipListed(content[j].url)}}

\* http://a:b, a url whose port is not a number: httpx cannot parse it, and
\* httpx.head raises httpx.InvalidURL, which verify_link does not catch
UrlBadPort == <<"h", "t", "t", "p", ":", "/", "/", "a", ":", "b">>
Unparsable(url) == url = UrlBadPort

\* validate_grok_report as its caller sees it: an exception that leaves
\* verify_link leaves validate_grok_report as well
ValidateOutcome(content, verifier, dead) ==
    IF verifier /\ \E u \in CheckedUrls(content) : Unparsable(u)
        THEN Raise("InvalidURL")
    ELSE Ret(ValidateGrokReport(content, verifier, dead))

(***************************************************************************)
(* The sensor wrappers                                                     *)
(***************************************************************************)

MaxSensed == 2

\* The title of the i-th thing a sensor reports; the sensors repeat titles
SensedTitle(i) == IF i % 2 = 1 THEN <<"a">> ELSE <<"A", " ">>

\* What fetch_grok_intel can come back with: an exception, nothing, an error
\* text, a report
GrokOk == <<TextSeg("News")>>
GrokCalls ==
    {Raise("Exception"), Ret(<<>>), Ret(<<TextSeg("Error"), TextSeg("429")>>),
     Ret(GrokOk)}

\* grok_result and "Error" not in grok_result
Usable(report) ==
    /\ report # <<>>
    /\ \A i \in DOMAIN report : report[i].s # "Error"

\* No review: None
NoReview == <<>>

\* Only the first three products are looked up on X
GrokReviewed == 3

Product(i) ==
    [name |-> SensedTitle(i), url |-> "u", votes_count |-> i, tagline |-> "t"]

\* fetch_trending_products(limit)
PhCalls(limit) ==
    {Raise("Exception")}
        \cup {Ret([i \in 1..n |-> Product(i)]) : n \in 0..Min(limit, MaxSensed)}

\* The inner try of _fetch_product_hunt for product number i (from 1)
GrokReview(grok, i, call) ==
    IF grok /\ i <= GrokReviewed /\ call.out = "return" /\ Usable(call.val)
        THEN call.val
    ELSE NoReview

\* _fetch_product_hunt(limit), given what fetch_trending_products returns and
\* what fetch_grok_intel returns for each product
FetchProductHunt(ph, grok, call, reviews) ==
    IF ~ph THEN <<>>
    ELSE IF call.out = "raise" THEN <<>>
    ELSE [i \in 1..Len(call.val) |->
             LET p == call.val[i]
             IN  [source |-> "Product Hunt", category |-> "Product Hunt",
                  title |-> p.name, url |-> p.url,
                  heat |-> <<p.votes_count, " votes">>, time |-> "Today",
                  tagline |-> p.tagline,
                  grok_review |-> GrokReview(grok, i, reviews[i])]]

Paper(i) ==
    [title |-> SensedTitle(i), url |-> "u", authors |-> <<"x", "y", "z">>,
     published |-> "d", categories |-> <<"cs.AI">>, summary |-> "s"]

\* fetch_ai_papers(limit=limit)
ArxivCalls(limit) ==
    {Raise("Exception")}
        \cup {Ret([i \in 1..n |-> Paper(i)]) : n \in 0..Min(limit, MaxSensed)}

\* _fetch_arxiv(limit)
FetchArxiv(arxiv, call) ==
    IF ~arxiv THEN <<>>
    ELSE IF call.out = "raise" THEN <<>>
    ELSE [i \in 1..Len(call.val) |->
             LET p == call.val[i]
             IN  [source |-> "ArXiv", category |-> "ArXiv",
                  title |-> p.title, url |-> p.url,
                  authors |-> Take(p.authors, 2), time |-> p.published,
                  categories |-> Take(p.categories, 2), summary |-> p.summary]]

\* _fetch_grok_social()
FetchGrokSocial(grok, verifier, call, dead) ==
    IF ~grok THEN <<>>
    ELSE IF call.out = "raise" THEN <<>>
    ELSE IF Usable(call.val)
        THEN LET validated == ValidateOutcome(call.val, verifier, dead)
             IN  IF validated.out = "raise" THEN <<>>
                 ELSE <<[source |-> "X (via Grok)", category |-> "X/Grok",
                         content |-> validated.val,
                         type |-> "markdown_report"]>>
    ELSE <<>>

\* XHSRadar().fetch_leads(): one lead for each of the SEARCH_QUERIES, the
\* query in its title
SEARCH_QUERIES ==
    <<"c", "d", "e", "f", "g", "h", "i", "j", "k", "l", "m", "n", "o", "p", "r">>

Lead(i) == [title |-> <<"q", SEARCH_QUERIES[i]>>, url |-> "u", summary |-> "s"]

XhsCalls ==
    {Raise("Exception"), Ret(<<>>), Ret([i \in DOMAIN SEARCH_QUERIES |-> Lead(i)])}

\* leads[:8]
XhsCut == 8

\* _fetch_xhs()
FetchXhs(xhs, call) ==
    IF ~xhs THEN <<>>
    ELSE IF call.out = "raise" THEN <<>>
    ELSE LET leads == Take(call.val, XhsCut)
         IN  [i \in 1..Len(leads) |->
                 [source |-> "xhs", category |-> "XHS",
                  title |-> leads[i].title, url |-> leads[i].url,
                  summary |-> leads[i].summary]]

Article(i) ==
    [title |-> SensedTitle(i), url |-> "u", source |-> "blog",
     pub_date |-> "d", content |-> "c"]

\* fetch_hn_blogs(limit=limit)
BlogCalls(limit) ==
    {Raise("Exception")}
        \cup {Ret([i \in 1..n |-> Article(i)]) : n \in 0..Min(limit, MaxSensed)}

\* _fetch_hn_blogs(limit)
FetchHnBlogs(blogs, call) ==
    IF ~blogs THEN <<>>
    ELSE IF call.out = "raise" THEN <<>>
    ELSE [i \in 1..Len(call.val) |->
             LET a == call.val[i]
             IN  [source |-> "HN Top Blogs", category |-> "HN Blogs",
                  title |-> a.title, url |-> a.url, author |-> a.source,
                  time |-> a.pub_date, content |-> a.content]]

(***************************************************************************)
(* fetch_all_sources                                                       *)
(***************************************************************************)

\* _dedup_items as its caller sees it: item.get(key, "").strip() is an
\* AttributeError when the title is no string
DedupOutcome(items) ==
    IF \E i \in DOMAIN items : Get(items[i], "title") = NullTitle
        THEN Raise("AttributeError")
    ELSE Ret(DedupItems(items))

\* external.get(category, [])
GetList(external, category) ==
    IF category \in DOMAIN external THEN external[category] ELSE <<>>

BundleKeys ==
    {"tech_trends", "capital_flow", "product_gems", "community", "research",
     "social", "xhs_directives", "insights"}

\* The items of xs whose normalized title no item of `others` has
NotTitledAs(xs, others) ==
    SelectSeq(xs, LAMBDA x :
        NormTitle(x) = <<>> \/ \A j \in DOMAIN others : NormTitle(others[j]) # NormTitle(x))

\* The `intel` dict, with one `seen` set shared by the three external
\* categories
BuildIntelGlobal(external, ph_data, arxiv_data, social_data, xhs_data, blog_data) ==
    LET tech      == DedupOutcome(GetList(external, "tech_trends"))
        capital   == DedupOutcome(GetList(external, "capital_flow"))
        community == DedupOutcome(GetList(external, "community"))
    IN  IF tech.out = "raise" THEN tech
        ELSE IF capital.out = "raise" THEN capital
        ELSE IF community.out = "raise" THEN community
        ELSE Ret([tech_trends    |-> tech.val,
                  capital_flow   |-> NotTitledAs(capital.val, tech.val),
                  product_gems   |-> ph_data,
                  community      |-> NotTitledAs(community.val, tech.val \o capital.val),
                  research       |-> arxiv_data,
                  social         |-> social_data,
                  xhs_directives |-> xhs_data,
                  insights       |-> blog_data])

\* The `intel` dict, with the sensor lists deduplicated as well
BuildIntelDedupAll(external, ph_data, arxiv_data, social_data, xhs_data, blog_data) ==
    LET tech      == DedupOutcome(GetList(external, "tech_trends"))
        capital   == DedupOutcome(GetList(external, "capital_flow"))
        community == DedupOutcome(GetList(external, "community"))
    IN  IF tech.out = "raise" THEN tech
        ELSE IF capital.out = "raise" THEN capital
        ELSE IF community.out = "raise" THEN community
        ELSE Ret([tech_trends    |-> tech.val,
                  capital_flow   |-> capital.val,
                  product_gems   |-> DedupItems(ph_data),
                  community      |-> community.val,
                  research       |-> DedupItems(arxiv_data),
                  social         |-> DedupItems(social_data),
                  xhs_directives |-> DedupItems(xhs_data),
                  insights       |-> DedupItems(blog_data)])

\* The `intel` dict: the dict display evaluates its values in order, so the
\* first _dedup_items call that raises ends it
BuildIntel(external, ph_data, arxiv_data, social_data, xhs_data, blog_data) ==
    LET tech      == DedupOutcome(GetList(external, "tech_trends"))
        capital   == DedupOutcome(GetList(external, "capital_flow"))
        community == DedupOutcome(GetList(external, "community"))
    IN  IF tech.out = "raise" THEN tech
        ELSE IF capital.out = "raise" THEN capital
        ELSE IF community.out = "raise" THEN community
        ELSE Ret([tech_trends    |-> tech.val,
                  capital_flow   |-> capital.val,
                  product_gems   |-> ph_data,
                  community      |-> community.val,
                  research       |-> arxiv_data,
                  social         |-> social_data,
                  xhs_directives |-> xhs_data,
                  insights       |-> blog_data])

TopLimit == 1

\* The limit _fetch_hn_blogs is submitted with
BlogLimit == 5

\* The outcomes of the imports: at most MaxUnavailable of the optional
\* modules are missing
MaxUnavailable == 1

FlagWorlds ==
    {a \in [Flags -> BOOLEAN] :
        Cardinality({g \in Flags : ~a[g]}) <= MaxUnavailable}

\* What _fetch_external_sources can return, for each limit
ExternalReturnsFor == [l \in 1..TopLimit |-> ExternalReturns(l)]

\* The futures in the order fetch_all_sources asks for their results
AwaitOrder == <<"external", "product_hunt", "arxiv", "social", "xhs", "hn_blogs">>

IdleButMain == IdleDedup /\ IdleFilter /\ IdleFetch /\ IdleExt /\ IdleVal /\ IdleVer
    /\ IdleArx /\ IdleSoc /\ IdleRep /\ IdleRate
othersMain == <<dedupVars, filterVars, fetchVars, extVars, valVars, verVars,
    arxVars, socVars, repVars,
    rateVars>>

Init ==
    /\ IdleButMain
    /\ mainPc = "start"
    /\ limitPerSource \in 1..TopLimit
    /\ available \in FlagWorlds
    /\ taskState = [t \in Tasks |-> "idle"]
    /\ taskResult = [t \in Tasks |-> NoResult]
    /\ intel = NoBundle
    /\ called = {}

\* The six executor.submit calls; the pool has eight workers, so every task
\* starts
SubmitAll ==
    /\ mainPc = "start"
    /\ mainPc' = "await"
    /\ taskState' = [t \in Tasks |-> "running"]
    /\ UNCHANGED <<limitPerSource, available, taskResult, intel, called, othersMain>>

\* A wrapper calls its sensor only past the guard `if not X_AVAILABLE:
\* return []`
InvokedAlways(flag, name) == {name}
Invoked(flag, name) == IF flag THEN {name} ELSE {}

\* Task t comes to its end with outcome r, having called the sensors c
TaskEnds(t, r, c) ==
    /\ taskState[t] = "running"
    /\ taskState' = [taskState EXCEPT ![t] = "done"]
    /\ taskResult' = [taskResult EXCEPT ![t] = r]
    /\ called' = called \cup c
    /\ UNCHANGED <<mainPc, limitPerSource, available, intel, othersMain>>

\* The task _fetch_external_sources(limit_per_source), as a whole
RunExternal ==
    \E r \in ExternalReturnsFor[limitPerSource] : TaskEnds("external", r, {})

RunProductHunt ==
    \E call \in PhCalls(limitPerSource) :
        \E reviews \in [1..(IF call.out = "return" THEN Len(call.val) ELSE 0)
                             -> GrokCalls] :
            TaskEnds("product_hunt",
                     Ret(FetchProductHunt(available["PH"], available["GROK"],
                                          call, reviews)),
                     Invoked(available["PH"], "PH")
                         \cup Invoked(available["PH"] /\ available["GROK"]
                                        /\ call.out = "return" /\ call.val # <<>>,
                                      "GROK"))

RunArxiv ==
    \E call \in ArxivCalls(limitPerSource) :
        TaskEnds("arxiv", Ret(FetchArxiv(available["ARXIV"], call)),
                 Invoked(available["ARXIV"], "ARXIV"))

RunGrokSocial ==
    \E call \in GrokCalls :
        \E dead \in SUBSET (IF call.out = "return" THEN CheckedUrls(call.val) ELSE {}) :
            TaskEnds("social",
                     Ret(FetchGrokSocial(available["GROK"], available["VERIFIER"],
                                         call, dead)),
                     Invoked(available["GROK"], "GROK"))

RunXhs ==
    \E call \in XhsCalls :
        TaskEnds("xhs", Ret(FetchXhs(available["XHS"], call)),
                 Invoked(available["XHS"], "XHS"))

RunHnBlogs ==
    \E call \in BlogCalls(BlogLimit) :
        TaskEnds("hn_blogs", Ret(FetchHnBlogs(available["HN_BLOGS"], call)),
                 Invoked(available["HN_BLOGS"], "HN_BLOGS"))

\* The first future, in the order of the future.result() calls, whose task
\* raised: 0 if there is none
RECURSIVE FirstRaised(_, _)
FirstRaised(held, i) ==
    IF i > Len(AwaitOrder) THEN 0
    ELSE IF held[AwaitOrder[i]].out = "raise" THEN i
    ELSE FirstRaised(held, i + 1)

\* The rest of fetch_all_sources.  The six future.result() calls block until
\* each task is done and the end of the `with` block joins the workers, so
\* the main thread goes on when all six tasks are done: an exception a task
\* raised leaves through its future.result(), otherwise the bundle is built
\* and returned.
ReturnIntel ==
    /\ mainPc = "await"
    /\ \A t \in Tasks : taskState[t] = "done"
    /\ LET r == IF FirstRaised(taskResult, 1) # 0
                    THEN taskResult[AwaitOrder[FirstRaised(taskResult, 1)]]
                ELSE BuildIntel(taskResult["external"].val,
                                taskResult["product_hunt"].val,
                                taskResult["arxiv"].val,
                                taskResult["social"].val,
                                taskResult["xhs"].val,
                                taskResult["hn_blogs"].val)
       IN  IF r.out = "raise"
               THEN mainPc' = "raised" /\ UNCHANGED intel
           ELSE mainPc' = "done" /\ intel' = r.val
    /\ UNCHANGED <<limitPerSource, available, taskState, taskResult, called,
                   othersMain>>

Next ==
    \/ SubmitAll
    \/ RunExternal
    \/ RunProductHunt
    \/ RunArxiv
    \/ RunGrokSocial
    \/ RunXhs
    \/ RunHnBlogs
    \/ ReturnIntel

Spec == Init /\ [][Next]_vars

(***************************************************************************)
(* Claims about fetch_all_sources                                          *)
(***************************************************************************)

IsList(v) == DOMAIN v = 1..Len(v)

\* C1: for every combination of outcomes of the source fetchers and sensors
\* (each may return items, return nothing, or raise), fetch_all_sources
\* returns without raising a mapping that contains exactly the eight keys
\* tech_trends, capital_flow, product_gems, community, research, social,
\* xhs_directives and insights, each mapped to a list (possibly empty).
C1_BundleAlwaysReturned ==
    /\ mainPc # "raised"
    /\ mainPc = "done" =>
           /\ DOMAIN intel = BundleKeys
           /\ \A k \in BundleKeys : IsList(intel[k])

\* Some item the external task returned has a title that is no string
SomeNullTitle ==
    /\ taskResult["external"].out = "return"
    /\ \E c \in ExternalCategories :
           \E i \in DOMAIN taskResult["external"].val[c] :
               taskResult["external"].val[c][i].title = NullTitle

\* What does hold: fetch_all_sources raises only when a fetcher handed on an
\* item whose title is no string, and every bundle it returns has the eight
\* keys, each mapped to a list
BundleReturnedForStringTitles ==
    /\ mainPc = "raised" => SomeNullTitle
    /\ mainPc = "done" =>
           /\ ~SomeNullTitle
           /\ DOMAIN intel = BundleKeys
           /\ \A k \in BundleKeys : IsList(intel[k])

\* No two items of xs have the same non-empty normalized title
NoRepeatedTitle(xs) ==
    \A i, j \in DOMAIN xs :
        (i < j /\ NormTitle(xs[i]) # <<>>) => NormTitle(xs[i]) # NormTitle(xs[j])

\* Every item of `fetched` that no earlier item of `fetched` shares its
\* normalized title with, and every item with an empty one, is in `kept`
FirstInCategoryKept(fetched, kept) ==
    \A i \in DOMAIN fetched :
        (\/ NormTitle(fetched[i]) = <<>>
         \/ \A j \in 1..(i - 1) : NormTitle(fetched[j]) # NormTitle(fetched[i]))
            => fetched[i] \in Range(kept)

\* C8: in every bundle returned by fetch_all_sources, each of tech_trends,
\* capital_flow and community contains no two items with the same non-empty
\* normalized title, and uniqueness is scoped to the single category: an item
\* is removed only when an earlier item of its own category has its title,
\* never because an item of a different category has it.
C8_DedupScopedToCategory ==
    mainPc = "done" =>
        \A c \in ExternalCategories :
            /\ NoRepeatedTitle(intel[c])
            /\ FirstInCategoryKept(taskResult["external"].val[c], intel[c])

\* A bundle has been returned in which tech_trends lost a repeated title and
\* capital_flow keeps an item with a title that tech_trends has too
C8_Witness ==
    /\ mainPc = "done"
    /\ Len(intel.tech_trends) < Len(taskResult["external"].val.tech_trends)
    /\ \E i \in DOMAIN intel.tech_trends, j \in DOMAIN intel.capital_flow :
           /\ NormTitle(intel.tech_trends[i]) # <<>>
           /\ NormTitle(intel.tech_trends[i]) = NormTitle(intel.capital_flow[j])

\* C9: the five sensor categories product_gems, research, social,
\* xhs_directives and insights are placed in the bundle exactly as their
\* sensor wrapper returned them, in the same order and with nothing removed,
\* so items with equal titles inside one of these categories are all retained.
C9_SensorListsAsReturned ==
    mainPc = "done" =>
        /\ intel.product_gems = taskResult["product_hunt"].val
        /\ intel.research = taskResult["arxiv"].val
        /\ intel.social = taskResult["social"].val
        /\ intel.xhs_directives = taskResult["xhs"].val
        /\ intel.insights = taskResult["hn_blogs"].val

\* A bundle has been returned whose insights hold two items with the same
\* normalized title, next to the eight directives of the XHS wrapper
C9_Witness ==
    /\ mainPc = "done"
    /\ Len(intel.insights) = 2
    /\ NormTitle(intel.insights[1]) = NormTitle(intel.insights[2])
    /\ NormTitle(intel.insights[1]) # <<>>
    /\ Len(intel.xhs_directives) = XhsCut
    /\ intel.social # <<>>
    /\ intel.product_gems # <<>>
    /\ intel.research # <<>>

\* C11: every source fetcher applies the keyword filter before truncating:
\* for a positive limit its result is the first `limit` items of the
\* keyword-filtered parsed items (never the filter of the first `limit`
\* parsed items), so the result never has more than `limit` items and has
\* exactly `limit` whenever at least `limit` parsed items match.
C11_FilterBeforeTruncate ==
    (fetchPc = "returned" /\ fetchLimit > 0) =>
        LET matching == FilterItems(fetchParsed, fetchKeyword)
        IN  /\ fetchResult = Take(matching, fetchLimit)
            /\ Len(fetchResult) <= fetchLimit
            /\ Len(matching) >= fetchLimit => Len(fetchResult) = fetchLimit

\* A fetcher has returned `limit` items where the two orders of filtering
\* and truncating differ: a parsed item that does not match stands before
\* one that does
C11_Witness ==
    /\ fetchPc = "returned"
    /\ fetchSource # "hn"
    /\ fetchKeyword # None
    /\ Len(fetchResult) = fetchLimit
    /\ fetchResult # FilterItems(Take(fetchParsed, fetchLimit), fetchKeyword)

(***************************************************************************)
(* SpecValidate: one call validate_grok_report(markdown_content)           *)
(***************************************************************************)

\* The urls verify_link is called with, in the order of the calls
RECURSIVE VerifyCalls(_, _)
VerifyCalls(matches, i) ==
    IF i > Len(matches) THEN <<>>
    ELSE (IF SkipListed(matches[i].url) THEN <<>> ELSE <<matches[i].url>>)
             \o VerifyCalls(matches, i + 1)

\* https://x.com/a: a skip-listed domain
UrlX == <<"h","t","t","p","s",":","/","/","x",".","c","o","m","/","a">>
\* http://linux.com/: its domain is not skip-listed, its text holds "x.com"
UrlLinux == <<"h","t","t","p",":","/","/","l","i","n","u","x",".","c","o","m","/">>
\* http://a.io/
UrlOther == <<"h","t","t","p",":","/","/","a",".","i","o","/">>

UrlPool == {UrlX, UrlLinux, UrlOther}

\* What a report is made of: text, and links to the urls of the pool
SegPool == {TextSeg("t")} \cup {LinkSeg("T", u) : u \in UrlPool}

MaxSegs == 2

IdleButVal == IdleDedup /\ IdleFilter /\ IdleFetch /\ IdleExt /\ IdleMain /\ IdleVer
    /\ IdleArx /\ IdleSoc /\ IdleRep /\ IdleRate
othersVal == <<dedupVars, filterVars, fetchVars, extVars, mainVars, verVars,
    arxVars, socVars, repVars,
    rateVars>>

InitValidate ==
    /\ IdleButVal
    /\ valPc = "call"
    /\ valIn \in SeqsUpTo(SegPool, MaxSegs)
    /\ valVerifier \in BOOLEAN
    /\ valDead \in SUBSET UrlPool
    /\ valChecked = <<>>
    /\ valOut = <<>>

\* validate_grok_report(markdown_content)
ValidateCall ==
    /\ valPc = "call"
    /\ valPc' = "done"
    /\ valOut' = ValidateGrokReport(valIn, valVerifier, valDead)
    /\ valChecked' = IF valVerifier THEN VerifyCalls(SelectSeq(valIn, IsLink), 1)
                     ELSE <<>>
    /\ UNCHANGED <<valIn, valVerifier, valDead, othersVal>>

NextValidate == ValidateCall

SpecValidate == InitValidate /\ [][NextValidate]_vars

\* The text of a url after its scheme
AfterScheme(url) ==
    IF Len(url) >= 8 /\ SubSeq(url, 1, 8) = <<"h","t","t","p","s",":","/","/">>
        THEN SubSeq(url, 9, Len(url))
    ELSE IF Len(url) >= 7 /\ SubSeq(url, 1, 7) = <<"h","t","t","p",":","/","/">>
        THEN SubSeq(url, 8, Len(url))
    ELSE url

\* The domain of a url: what stands between the scheme and the first "/"
DomainOf(url) ==
    LET rest == AfterScheme(url)
        cut  == {i \in 1..Len(rest) : rest[i] = "/"}
    IN  IF cut = {} THEN rest
        ELSE SubSeq(rest, 1, (CHOOSE i \in cut : \A j \in cut : i <= j) - 1)

EndsWith(s, tail) ==
    Len(s) >= Len(tail) /\ SubSeq(s, Len(s) - Len(tail) + 1, Len(s)) = tail

\* The domain of the url is a skip-listed domain, or a subdomain of one
DomainSkipListed(url) ==
    \E d \in DOMAIN skip_domains :
        \/ DomainOf(url) = skip_domains[d]
        \/ EndsWith(DomainOf(url), <<".">> \o skip_domains[d])

\* C12: in validate_grok_report a Markdown link is left unverified and
\* unmodified exactly when the domain of its URL is one of the skip-listed
\* domains (twitter.com, x.com, weibo.com, xiaohongshu.com); every other
\* http(s) Markdown link in the text is passed to the link verifier.
C12_SkipExactlyListedDomains ==
    (valPc = "done" /\ valVerifier) =>
        \A i \in DOMAIN valIn :
            IsLink(valIn[i]) =>
                (valIn[i].url \notin Range(valChecked) <=> DomainSkipListed(valIn[i].url))

\* What the code does: a link is passed to verify_link exactly when no
\* skip-listed domain occurs anywhere in the text of its url
SkipIsSubstringTest ==
    (valPc = "done" /\ valVerifier) =>
        \A i \in DOMAIN valIn :
            IsLink(valIn[i]) =>
                (valIn[i].url \notin Range(valChecked) <=> SkipListed(valIn[i].url))

\* The link was passed to verify_link and found unreachable
FoundUnreachable(seg) ==
    IsLink(seg) /\ seg.url \in Range(valChecked) /\ seg.url \in valDead

\* The text with the failure marker put directly behind each link that was
\* checked and found unreachable, and nothing else changed
RECURSIVE WithMarkers(_, _)
WithMarkers(content, i) ==
    IF i > Len(content) THEN <<>>
    ELSE (IF FoundUnreachable(content[i]) THEN <<content[i], FailedMarker>>
          ELSE <<content[i]>>) \o WithMarkers(content, i + 1)

\* The text with its failure markers deleted
WithoutMarkers(content) == SelectSeq(content, LAMBDA seg : seg # FailedMarker)

\* C13: validate_grok_report only flags and never drops content: its output
\* is the input text with the failure marker appended directly after each
\* checked link found unreachable, reachable links and all other text are
\* unchanged, deleting the markers from the output gives back the input, and
\* text containing no links is returned unchanged.
C13_OnlyFlagsNeverDrops ==
    valPc = "done" =>
        /\ valOut = WithMarkers(valIn, 1)
        /\ WithoutMarkers(valOut) = valIn
        /\ SelectSeq(valIn, IsLink) = <<>> => valOut = valIn

\* What does hold: nothing but markers is added, a marker stands only behind
\* a link found unreachable or behind another marker, every such link has
\* one behind it, and text without links comes back unchanged
OnlyMarkersAdded ==
    valPc = "done" =>
        /\ WithoutMarkers(valOut) = valIn
        /\ SelectSeq(valIn, IsLink) = <<>> => valOut = valIn
        /\ \A i \in DOMAIN valOut :
               /\ valOut[i] = FailedMarker =>
                      /\ i > 1
                      /\ valOut[i - 1] = FailedMarker \/ FoundUnreachable(valOut[i - 1])
               /\ FoundUnreachable(valOut[i]) =>
                      (i < Len(valOut) /\ valOut[i + 1] = FailedMarker)

(***************************************************************************)
(* verify_link (src/src/utils/verifier.py).                                *)
(*                                                                         *)
(* A url is a sequence of characters.  A request made through httpx ends   *)
(* either with a response, of which only the status code is read, or with  *)
(* an exception.  httpx.TimeoutException is a subclass of httpx.HTTPError; *)
(* httpx.InvalidURL, raised while the request is built from a url that     *)
(* cannot be parsed, derives from Exception directly.                      *)
(***************************************************************************)
StartsWith(s, prefix) ==
    /\ Len(s) >= Len(prefix)
    /\ SubSeq(s, 1, Len(prefix)) = prefix

\* line 12: url.startswith(("http://", "https://"))
SchemeHttp == <<"h", "t", "t", "p", ":", "/", "/">>
SchemeHttps == <<"h", "t", "t", "p", "s", ":", "/", "/">>

\* line 12: the urls for which no request is made
Rejected(url) ==
    url = <<>> \/ ~(StartsWith(url, SchemeHttp) \/ StartsWith(url, SchemeHttps))

StatusNotFound == 404

\* status codes a server may answer with
Statuses == {200, 204, 403, 404, 405, 500, 503}

Answered(status) == [kind |-> "status", status |-> status, exc |-> ""]
Failed(exc) == [kind |-> "raise", status |-> 0, exc |-> exc]

\* lines 29-34: the except clauses of verify_link
VerifierCaught == {"TimeoutException", "HTTPError", "ValueError"}

\* the urls of the model
UrlEmpty == <<>>
UrlBare == <<"a", ".", "i", "o">>
UrlFtp == <<"f", "t", "p", ":", "/", "/", "a">>
UrlUpper == <<"H", "T", "T", "P", ":", "/", "/", "a">>
UrlHttp == <<"h", "t", "t", "p", ":", "/", "/", "a">>
UrlHttps == <<"h", "t", "t", "p", "s", ":", "/", "/", "a">>
VerifyUrls == {UrlEmpty, UrlBare, UrlFtp, UrlUpper, UrlHttp, UrlHttps, UrlBadPort}

\* what httpx.head / httpx.get can end with for a url
RequestOutcomes(url) ==
    IF Unparsable(url)
    THEN {Failed("InvalidURL")}
    ELSE {Answered(s) : s \in Statuses} \cup {Failed(e) : e \in VerifierCaught}

Request(method, outcome) ==
    [method |-> method, kind |-> outcome.kind, status |-> outcome.status,
     exc |-> outcome.exc]

IdleButVer == IdleDedup /\ IdleFilter /\ IdleFetch /\ IdleExt /\ IdleMain /\ IdleVal
    /\ IdleArx /\ IdleSoc /\ IdleRep /\ IdleRate
othersVer == <<dedupVars, filterVars, fetchVars, extVars, mainVars, valVars,
    arxVars, socVars, repVars,
    rateVars>>

InitVerify ==
    /\ IdleButVer
    /\ verPc = "call"
    /\ verUrl \in VerifyUrls
    /\ verReqs = <<>>
    /\ verResult = FALSE
    /\ verExc = ""

\* lines 12-17: the format test
VerifyEnter ==
    /\ verPc = "call"
    /\ IF Rejected(verUrl)
       THEN verPc' = "returned" /\ verResult' = FALSE
       ELSE verPc' = "head" /\ UNCHANGED verResult
    /\ UNCHANGED <<verUrl, verReqs, verExc, othersVer>>

\* lines 29-34: an exception raised inside the try block
VerifyExcept(exc) ==
    IF exc \in VerifierCaught
    THEN verPc' = "returned" /\ verResult' = FALSE /\ UNCHANGED verExc
    ELSE verPc' = "raised" /\ verExc' = exc /\ UNCHANGED verResult

\* lines 20-24: the HEAD request
VerifyHead ==
    /\ verPc = "head"
    /\ \E o \in RequestOutcomes(verUrl) :
        /\ verReqs' = Append(verReqs, Request("HEAD", o))
        /\ IF o.kind = "raise"
           THEN VerifyExcept(o.exc)
           ELSE /\ UNCHANGED verExc
                /\ IF o.status = StatusOK
                   THEN verPc' = "returned" /\ verResult' = TRUE
                   ELSE IF o.status = StatusNotFound
                   THEN verPc' = "returned" /\ verResult' = FALSE
                   ELSE verPc' = "get" /\ UNCHANGED verResult
    /\ UNCHANGED <<verUrl, othersVer>>

\* lines 26-27: the GET request
VerifyGet ==
    /\ verPc = "get"
    /\ \E o \in RequestOutcomes(verUrl) :
        /\ verReqs' = Append(verReqs, Request("GET", o))
        /\ IF o.kind = "raise"
           THEN VerifyExcept(o.exc)
           ELSE /\ UNCHANGED verExc
                /\ verPc' = "returned"
                /\ verResult' = (o.status = StatusOK)
    /\ UNCHANGED <<verUrl, othersVer>>

NextVerify == VerifyEnter \/ VerifyHead \/ VerifyGet

SpecVerify == InitVerify /\ [][NextVerify]_vars

VerifyEnded == verPc \in {"returned", "raised"}

\* C14: verify_link issues a HEAD request first; a 404 answer to it gives
\* false without a GET; every other answer to it, 200 included, is followed
\* by a GET request, and true is returned only when the GET answers 200.
C14_HeadThenGet ==
    /\ verReqs # <<>> => verReqs[1].method = "HEAD"
    /\ (VerifyEnded /\ verReqs # <<>> /\ verReqs[1].kind = "status") =>
         IF verReqs[1].status = StatusNotFound
         THEN Len(verReqs) = 1 /\ verPc = "returned" /\ verResult = FALSE
         ELSE /\ Len(verReqs) = 2
              /\ verReqs[2].method = "GET"
              /\ (verPc = "returned" /\ verResult) =>
                    (verReqs[2].kind = "status" /\ verReqs[2].status = StatusOK)

\* What verify_link does: as C14 states, except that a 200 answer to the
\* HEAD request gives true at once, with no GET request.
HeadOkReturnsAtOnce ==
    /\ verReqs # <<>> => verReqs[1].method = "HEAD"
    /\ (VerifyEnded /\ verReqs # <<>> /\ verReqs[1].kind = "status") =>
         IF verReqs[1].status = StatusOK
         THEN Len(verReqs) = 1 /\ verPc = "returned" /\ verResult = TRUE
         ELSE IF verReqs[1].status = StatusNotFound
         THEN Len(verReqs) = 1 /\ verPc = "returned" /\ verResult = FALSE
         ELSE /\ Len(verReqs) = 2
              /\ verReqs[2].method = "GET"
              /\ (verPc = "returned" /\ verResult) =>
                    (verReqs[2].kind = "status" /\ verReqs[2].status = StatusOK)

\* C15: verify_link never raises: it returns false for an empty url and for
\* a url that starts with neither http:// nor https://, making no request,
\* and it returns false whenever the HEAD or the GET request fails with a
\* timeout or with any other network or url error.
C15_NeverRaises ==
    /\ verPc # "raised"
    /\ (verPc = "returned" /\ Rejected(verUrl)) =>
            (verResult = FALSE /\ verReqs = <<>>)
    /\ (verReqs # <<>> /\ verReqs[Len(verReqs)].kind = "raise") =>
            (verPc = "returned" /\ verResult = FALSE)

\* What verify_link does: the errors named by its except clauses give false,
\* and so does a url of the wrong form; an unparsable url is the one case
\* in which an exception leaves it.
RaisesOnlyInvalidURL ==
    /\ verPc = "raised" => (verExc = "InvalidURL" /\ Unparsable(verUrl))
    /\ (verPc = "returned" /\ Rejected(verUrl)) =>
            (verResult = FALSE /\ verReqs = <<>>)
    /\ (verReqs # <<>> /\ verReqs[Len(verReqs)].kind = "raise"
            /\ verReqs[Len(verReqs)].exc \in VerifierCaught) =>
            (verPc = "returned" /\ verResult = FALSE)

(***************************************************************************)
(* fetch_ai_papers and _query_arxiv (src/src/sensors/arxiv_ai.py).         *)
(*                                                                         *)
(* The answer of the arXiv API to one query is an exception of httpx.get,  *)
(* a text shorter than 500 characters, or a feed of <entry> elements, of   *)
(* which an entry may lack its <id> or its <title>.                        *)
(***************************************************************************)
\* lines 41-45
strategies ==
    << [query |-> "cat:cs.AI", sort_by |-> "submittedDate"],
       [query |-> "cat:cs.AI+OR+cat:cs.LG+OR+cat:cs.CL", sort_by |-> "submittedDate"],
       [query |-> "cat:cs.AI+OR+cat:cs.LG", sort_by |-> "lastUpdatedDate"] >>

\* line 56: time.sleep(3)
SleepSecs == 3

MaxPapers == 2

\* an <entry> of the feed: the groups matched by the expressions of lines 82-83
Entry(id, title) == [id |-> id, title |-> title]

EntryPool ==
    { Entry(Some("2401.1"), Some("t1")), Entry(Some("2401.2"), Some("t2")),
      Entry(None, Some("t3")), Entry(Some("2401.4"), None) }

Feeds(limit) == UNION { [1..n -> EntryPool] : n \in 0..limit }

FeedRaise == [kind |-> "raise", entries |-> <<>>]
FeedShort == [kind |-> "short", entries |-> <<>>]
FeedOf(entries) == [kind |-> "feed", entries |-> entries]

\* what the API may answer to a query for at most `limit` results
ApiAnswers(limit) == {FeedRaise, FeedShort} \cup {FeedOf(es) : es \in Feeds(limit)}

\* lines 89-101: an entry gives a paper when both matches succeed
ArxivPaper(entry) == [id |-> entry.id[1], title |-> entry.title[1]]

RECURSIVE ParseEntries(_)
ParseEntries(entries) ==
    IF entries = <<>> THEN <<>>
    ELSE LET e == Head(entries)
             rest == ParseEntries(Tail(entries))
         IN  IF e.id # None /\ e.title # None
             THEN <<ArxivPaper(e)>> \o rest
             ELSE rest

\* lines 62-103: _query_arxiv for one answer of the API
QueryArxiv(answer) ==
    IF answer.kind \in {"raise", "short"} THEN <<>> ELSE ParseEntries(answer.entries)

\* a delay after every empty query, the last included
SleepAlways(i) == TRUE

\* line 53: i < len(strategies) - 1
MustSleep(i) == i < Len(strategies) - 1

Queried(i, answer, papers) ==
    [ev |-> "query", strategy |-> strategies[i + 1], answer |-> answer.kind,
     papers |-> papers, secs |-> 0]
Slept(secs) ==
    [ev |-> "sleep", strategy |-> strategies[1], answer |-> "", papers |-> <<>>,
     secs |-> secs]

IdleButArx ==
    IdleDedup /\ IdleFilter /\ IdleFetch /\ IdleExt /\ IdleMain /\ IdleVal /\ IdleVer
        /\ IdleSoc /\ IdleRep /\ IdleRate
othersArx ==
    <<dedupVars, filterVars, fetchVars, extVars, mainVars, valVars, verVars,
      socVars, repVars,
    rateVars>>

InitArxiv ==
    /\ IdleButArx
    /\ arxPc = "query"
    /\ arxLimit \in 1..MaxPapers
    /\ arxI = 0
    /\ arxPapers = <<>>
    /\ arxLog = <<>>
    /\ arxResult = <<>>

\* line 48: papers = _query_arxiv(query, sort_by, limit)
ArxivQuery ==
    /\ arxPc = "query"
    /\ \E answer \in ApiAnswers(arxLimit) :
        LET papers == QueryArxiv(answer)
        IN  /\ arxPapers' = papers
            /\ arxLog' = Append(arxLog, Queried(arxI, answer, papers))
    /\ arxPc' = "check"
    /\ UNCHANGED <<arxLimit, arxI, arxResult, othersArx>>

\* lines 49-59: return the papers, or sleep and go on, or give up
ArxivCheck ==
    /\ arxPc = "check"
    /\ IF arxPapers # <<>>
       THEN /\ arxPc' = "returned"
            /\ arxResult' = arxPapers
            /\ UNCHANGED <<arxI, arxLog>>
       ELSE /\ arxLog' = IF MustSleep(arxI) THEN Append(arxLog, Slept(SleepSecs))
                         ELSE arxLog
            /\ IF arxI + 1 < Len(strategies)
               THEN arxPc' = "query" /\ arxI' = arxI + 1 /\ UNCHANGED arxResult
               ELSE arxPc' = "returned" /\ arxResult' = <<>> /\ UNCHANGED arxI
    /\ UNCHANGED <<arxLimit, arxPapers, othersArx>>

NextArxiv == ArxivQuery \/ ArxivCheck

SpecArxiv == InitArxiv /\ [][NextArxiv]_vars

QueriesOf(log) == SelectSeq(log, LAMBDA e : e.ev = "query")

\* C16: fetch_ai_papers queries its three strategies in their fixed order:
\* a strategy is queried only when all strategies before it returned no
\* paper, at most three queries are made, consecutive queries are separated
\* by one delay of fixed length and no delay follows the last query, the
\* first non-empty result is returned with no further query, and the empty
\* list is returned only when all three strategies returned no paper.
C16_StrategiesInOrder ==
    LET qs == QueriesOf(arxLog)
    IN  /\ Len(qs) <= Len(strategies)
        /\ \A k \in DOMAIN qs :
              /\ qs[k].strategy = strategies[k]
              /\ k < Len(qs) => qs[k].papers = <<>>
        /\ \A k \in DOMAIN arxLog :
              IF k % 2 = 1 THEN arxLog[k].ev = "query"
              ELSE arxLog[k].ev = "sleep" /\ arxLog[k].secs = SleepSecs
        /\ arxPc = "returned" =>
              /\ qs # <<>>
              /\ arxLog[Len(arxLog)].ev = "query"
              /\ arxResult = qs[Len(qs)].papers
              /\ arxResult = <<>> =>
                    /\ Len(qs) = Len(strategies)
                    /\ \A k \in DOMAIN qs : qs[k].papers = <<>>

\* the third strategy is reached and gives the papers returned
C16_Witness ==
    /\ arxPc = "returned"
    /\ Len(QueriesOf(arxLog)) = 3
    /\ Len(arxLog) = 5
    /\ arxResult # <<>>

\* all three strategies are empty
C16_Exhausted ==
    /\ arxPc = "returned"
    /\ Len(QueriesOf(arxLog)) = 3
    /\ arxResult = <<>>

(***************************************************************************)
(* More claims about fetch_all_sources                                     *)
(***************************************************************************)

\* The optional sensors: the flag of each, its task and its key of the bundle
OptionalSensors == {"PH", "ARXIV", "GROK", "XHS", "HN_BLOGS"}

TaskOf(g) ==
    CASE g = "PH" -> "product_hunt"
      [] g = "ARXIV" -> "arxiv"
      [] g = "GROK" -> "social"
      [] g = "XHS" -> "xhs"
      [] g = "HN_BLOGS" -> "hn_blogs"

KeyOf(g) ==
    CASE g = "PH" -> "product_gems"
      [] g = "ARXIV" -> "research"
      [] g = "GROK" -> "social"
      [] g = "XHS" -> "xhs_directives"
      [] g = "HN_BLOGS" -> "insights"

\* An unavailable sensor is not called, its task returns the empty list, and
\* its key of a returned bundle, which has all eight keys, holds the empty
\* list; the run ends with an exception only when an external source handed
\* on a title that is no string, never because of the sensor
UnavailableSkipped ==
    \A g \in OptionalSensors : ~available[g] =>
        /\ g \notin called
        /\ taskState[TaskOf(g)] = "done" => taskResult[TaskOf(g)] = Ret(<<>>)
        /\ mainPc = "done" =>
              /\ DOMAIN intel = BundleKeys
              /\ intel[KeyOf(g)] = <<>>
        /\ mainPc = "raised" => SomeNullTitle

C19_ItemsCarrySourceAndTitle ==
    mainPc = "done" =>
        \A k \in BundleKeys : \A i \in DOMAIN intel[k] :
            {"source", "title"} \subseteq DOMAIN intel[k][i]

\* What holds: every item carries `source`, and every item outside the
\* social category carries `title`; the report item of the social category
\* has source, category, content and type only
OnlySocialLacksTitle ==
    mainPc = "done" =>
        \A k \in BundleKeys : \A i \in DOMAIN intel[k] :
            /\ "source" \in DOMAIN intel[k][i]
            /\ IF k = "social"
               THEN DOMAIN intel[k][i] = {"source", "category", "content", "type"}
               ELSE "title" \in DOMAIN intel[k][i]

(***************************************************************************)
(* _fetch_grok_social (src/src/intel_collector.py), on reports that hold   *)
(* links                                                                   *)
(***************************************************************************)
SocialUrls == UrlPool \cup {UrlBadPort}

SocialSegs ==
    {TextSeg("t"), TextSeg("Error")} \cup {LinkSeg("T", u) : u \in SocialUrls}

MaxSocialSegs == 2

\* fetch_grok_intel("AI Agents, LLM, Tech Startups"): an exception, nothing,
\* or a text
SocialCalls ==
    {Raise("Exception")} \cup {Ret(r) : r \in SeqsUpTo(SocialSegs, MaxSocialSegs)}

IdleButSoc ==
    IdleDedup /\ IdleFilter /\ IdleFetch /\ IdleExt /\ IdleMain /\ IdleVal /\ IdleVer
        /\ IdleArx /\ IdleRep /\ IdleRate
othersSoc ==
    <<dedupVars, filterVars, fetchVars, extVars, mainVars, valVars, verVars,
      arxVars, repVars,
    rateVars>>

InitSocial ==
    /\ IdleButSoc
    /\ socPc = "call"
    /\ socGrok \in BOOLEAN
    /\ socVerifier \in BOOLEAN
    /\ socCall \in SocialCalls
    /\ socDead \in SUBSET {UrlLinux, UrlOther}
    /\ socOut = <<>>

\* _fetch_grok_social()
SocialCall ==
    /\ socPc = "call"
    /\ socPc' = "done"
    /\ socOut' = FetchGrokSocial(socGrok, socVerifier, socCall, socDead)
    /\ UNCHANGED <<socGrok, socVerifier, socCall, socDead, othersSoc>>

NextSocial == SocialCall

SpecSocial == InitSocial /\ [][NextSocial]_vars

\* the call raised, returned nothing, or returned an error-marked text
NoData(call) == call.out = "raise" \/ ~Usable(call.val)

\* the one item made of a report
ReportItem(content) ==
    [source |-> "X (via Grok)", category |-> "X/Grok", content |-> content,
     type |-> "markdown_report"]

\* C18: _fetch_grok_social returns the empty list whenever the search call
\* raises, returns nothing or returns an error-marked response; otherwise
\* it returns exactly one item, of type markdown_report, whose content is
\* the response text after link validation.
C18_SocialOneReportOrNothing ==
    (socPc = "done" /\ socGrok) =>
        IF NoData(socCall) THEN socOut = <<>>
        ELSE /\ Len(socOut) = 1
             /\ socOut[1].type = "markdown_report"
             /\ socOut[1].content =
                    ValidateGrokReport(socCall.val, socVerifier, socDead)

\* What _fetch_grok_social does: as C18 states, except that a response whose
\* validation raises is given up as well
SocialDropsUnvalidated ==
    (socPc = "done" /\ socGrok) =>
        IF NoData(socCall) THEN socOut = <<>>
        ELSE IF ValidateOutcome(socCall.val, socVerifier, socDead).out = "raise"
        THEN socOut = <<>>
        ELSE socOut =
               <<ReportItem(ValidateGrokReport(socCall.val, socVerifier, socDead))>>

(***************************************************************************)
(* generate_report (src/src/report_generator.py).                          *)
(*                                                                         *)
(* A report is a sequence of lines and a line a sequence of words; the     *)
(* text returned is the lines joined by line feeds.  The words stand for   *)
(* the pieces of text the code puts together: a literal of the source, the *)
(* date string, a field of an item.  The items of the model carry no       *)
(* summary and no content, and the translator and the full-text reader are *)
(* taken as unavailable, so that an item gives the lines the code writes   *)
(* without calling them.                                                   *)
(***************************************************************************)
\* 全球情报日报, the heading of line 79
ReportHeading == "QuanQiuQingBaoRiBao"
\* 暂无数据, the notice test_generate_empty_report looks for
NoDataNotice == "ZanWuShuJu"
\* 无, the value of sources_str when no source is active (line 76)
NoSources == "Wu"
LF == "\n"

GetOr(item, key, default) == IF key \in DOMAIN item THEN item[key] ELSE default

\* intel.get(key): falsy when the key is missing or the list is empty
HasData(bundle, key) == key \in DOMAIN bundle /\ bundle[key] # <<>>

\* lines 58-76
ActiveSources(bundle) ==
    (IF HasData(bundle, "tech_trends") THEN <<"HN", "GitHub">> ELSE <<>>)
    \o (IF HasData(bundle, "capital_flow") THEN <<"36Kr", "WallStreetCN">> ELSE <<>>)
    \o (IF HasData(bundle, "community") THEN <<"V2EX">> ELSE <<>>)
    \o (IF HasData(bundle, "product_gems") THEN <<"PH">> ELSE <<>>)
    \o (IF HasData(bundle, "research") THEN <<"ArXiv">> ELSE <<>>)
    \o (IF HasData(bundle, "social") THEN <<"X">> ELSE <<>>)
    \o (IF HasData(bundle, "insights") THEN <<"Blogs">> ELSE <<>>)

SourcesStr(bundle) ==
    IF ActiveSources(bundle) = <<>> THEN <<NoSources>> ELSE ActiveSources(bundle)

\* The sections in the order they are written, each with the number of
\* items shown; 0 stands for no cut.  xhs_directives has no section.
ReportSections ==
    << [key |-> "tech_trends", shown |-> 10], [key |-> "capital_flow", shown |-> 10],
       [key |-> "research", shown |-> 5], [key |-> "product_gems", shown |-> 8],
       [key |-> "social", shown |-> 0], [key |-> "community", shown |-> 5],
       [key |-> "insights", shown |-> 5] >>

ItemHead(i, item) ==
    <<"###", i, GetOr(item, "title", "Untitled"), GetOr(item, "url", "#")>>

\* The lines written for item number i of the section of `key`
ItemLines(key, i, item) ==
    CASE key = "tech_trends" ->
            <<ItemHead(i, item),
              <<GetOr(item, "category", ""), GetOr(item, "heat", ""),
                GetOr(item, "time", "")>>,
              <<>>>>
      [] key = "capital_flow" ->
            <<ItemHead(i, item),
              <<GetOr(item, "category", ""), GetOr(item, "time", "")>>,
              <<>>>>
      [] key = "research" ->
            <<ItemHead(i, item),
              <<GetOr(item, "authors", ""), GetOr(item, "time", "")>>,
              <<>>>>
      [] key = "product_gems" ->
            <<ItemHead(i, item),
              <<">", GetOr(item, "tagline", "")>>,
              <<GetOr(item, "heat", "")>>,
              <<>>>>
      [] key = "social" ->
            IF GetOr(item, "type", "") = "markdown_report"
                THEN << <<">", GetOr(item, "source", "X")>>, <<>>,
                        <<GetOr(item, "content", "*none*")>>, <<>> >>
            ELSE << <<"###", GetOr(item, "author", "")>>,
                    <<">", GetOr(item, "title", "")>>,
                    <<GetOr(item, "heat", ""), GetOr(item, "url", "#")>>, <<>> >>
      [] key = "community" ->
            <<ItemHead(i, item), <<GetOr(item, "heat", "")>>, <<>>>>
      [] key = "insights" ->
            <<ItemHead(i, item),
              <<GetOr(item, "author", ""), GetOr(item, "time", "")>>,
              <<>>>>

RECURSIVE ItemsLines(_, _, _)
ItemsLines(key, items, i) ==
    IF i > Len(items) THEN <<>>
    ELSE ItemLines(key, i, items[i]) \o ItemsLines(key, items, i + 1)

\* One `if intel.get(key):` block: nothing at all for a section without data
SectionLines(bundle, section) ==
    IF ~HasData(bundle, section.key) THEN <<>>
    ELSE LET items == IF section.shown = 0 THEN bundle[section.key]
                      ELSE SubSeq(bundle[section.key], 1,
                                  IF Len(bundle[section.key]) < section.shown
                                  THEN Len(bundle[section.key]) ELSE section.shown)
         IN  << <<"##", section.key>>, <<">", section.key>>, <<>> >>
                 \o ItemsLines(section.key, items, 1)

RECURSIVE SectionsLines(_, _)
SectionsLines(bundle, k) ==
    IF k > Len(ReportSections) THEN <<>>
    ELSE SectionLines(bundle, ReportSections[k]) \o SectionsLines(bundle, k + 1)

\* "\n".join(lines)
RECURSIVE JoinLines(_)
JoinLines(lines) ==
    IF lines = <<>> THEN <<>>
    ELSE IF Len(lines) = 1 THEN lines[1]
    ELSE lines[1] \o <<LF>> \o JoinLines(Tail(lines))

\* generate_report(intel, date_str), given what generate_executive_summary
\* returns
GenerateReport(bundle, date_str, exec_summary) ==
    JoinLines(
        << <<"#", ReportHeading, "(Global Intel Briefing)">>,
           <<"**date:**">> \o date_str,
           <<"**time:**", "HH:MM">>,
           <<"**sources:**">> \o SourcesStr(bundle),
           <<>> >>
        \o (IF exec_summary # <<>>
            THEN << <<"##", "Executive Summary">>, <<>>, exec_summary, <<>> >>
            ELSE <<>>)
        \o << <<"---">>, <<>> >>
        \o SectionsLines(bundle, 1)
        \o << <<"---">>, <<"*Unified Intelligence Engine V2*">> >>)

MaxReportItems == 1

ReportItemOf(key, i) ==
    IF key = "social"
        THEN [source |-> "X (via Grok)", category |-> "X/Grok", content |-> "News",
              type |-> "markdown_report"]
    ELSE [source |-> "s", category |-> key, title |-> <<"T", i>>, url |-> "u",
          heat |-> "h", time |-> "d"]

\* The bundles: each of the eight keys with up to MaxReportItems items
ReportBundles ==
    { [k \in BundleKeys |-> [i \in 1..n[k] |-> ReportItemOf(k, i)]] :
        n \in [BundleKeys -> 0..MaxReportItems] }

ReportDates == {<<>>, <<"2026-01-01">>, <<NoDataNotice>>}

\* generate_executive_summary(intel): the empty string without highlights
\* (no titled item in tech_trends, capital_flow, research, product_gems),
\* without translator or key, and on failure; else the text of the service
ExecSummaries(bundle) ==
    IF \E k \in {"tech_trends", "capital_flow", "research", "product_gems"} :
           HasData(bundle, k)
        THEN {<<>>, <<"summary">>}
    ELSE {<<>>}

IdleButRep ==
    IdleDedup /\ IdleFilter /\ IdleFetch /\ IdleExt /\ IdleMain /\ IdleVal /\ IdleVer
        /\ IdleArx /\ IdleSoc /\ IdleRate
othersRep ==
    <<dedupVars, filterVars, fetchVars, extVars, mainVars, valVars, verVars,
      arxVars, socVars, rateVars>>

InitReport ==
    /\ IdleButRep
    /\ repPc = "call"
    /\ repIntel \in ReportBundles
    /\ repDate \in ReportDates
    /\ repSummary = <<>>
    /\ repOut = <<>>

\* generate_report(intel, date_str)
ReportCall ==
    /\ repPc = "call"
    /\ repPc' = "done"
    /\ \E summary \in ExecSummaries(repIntel) :
          /\ repSummary' = summary
          /\ repOut' = GenerateReport(repIntel, repDate, summary)
    /\ UNCHANGED <<repIntel, repDate, othersRep>>

NextReport == ReportCall

SpecReport == InitReport /\ [][NextReport]_vars

AllEmpty(bundle) ==
    DOMAIN bundle = BundleKeys /\ \A k \in BundleKeys : bundle[k] = <<>>

\* C20: for a bundle whose eight categories are all empty and for any date
\* string, the report generate_report returns contains the report heading,
\* the date string it was given and an explicit no-data notice.
C20_EmptyReportHasNotice ==
    (repPc = "done" /\ AllEmpty(repIntel)) =>
        /\ Contains(repOut, <<ReportHeading>>)
        /\ Contains(repOut, repDate)
        /\ Contains(repOut, <<NoDataNotice>>)

\* What generate_report does for the empty bundle: heading, date, time and
\* the sources line, which reads "none", then two rules and the footer; the
\* notice is in the report only when the date string brings it
EmptyReportIsHeaderAndFooter ==
    (repPc = "done" /\ AllEmpty(repIntel)) =>
        /\ repOut = JoinLines(
               << <<"#", ReportHeading, "(Global Intel Briefing)">>,
                  <<"**date:**">> \o repDate,
                  <<"**time:**", "HH:MM">>,
                  <<"**sources:**", NoSources>>,
                  <<>>, <<"---">>, <<>>, <<"---">>,
                  <<"*Unified Intelligence Engine V2*">> >>)
        /\ Contains(repOut, <<ReportHeading>>)
        /\ Contains(repOut, repDate)
        /\ Contains(repOut, <<NoDataNotice>>) <=> Contains(repDate, <<NoDataNotice>>)

(***************************************************************************)
(* More claims about the source fetchers (checked under SpecFetch)         *)
(***************************************************************************)

\* The rows or entries of the page a fetcher was answered with; empty when
\* the answer is no well-formed page
PageEntries(source, resp) ==
    IF resp.kind # "resp" THEN <<>>
    ELSE IF source \in {"hn", "github", "36kr"} THEN resp.body
    ELSE IF source = "v2ex"
        THEN IF resp.body.j = "list" THEN resp.body.xs ELSE <<>>
    ELSE IF /\ resp.body.j = "obj"
            /\ "data" \in DOMAIN resp.body.f
            /\ resp.body.f.data.j = "obj"
            /\ "items" \in DOMAIN resp.body.f.data.f
            /\ resp.body.f.data.f.items.j = "list"
        THEN resp.body.f.data.f.items.xs
    ELSE <<>>

\* An entry the fetcher of `source` can make an item of
WellFormed(source, e) ==
    CASE source = "hn" -> e.titleline
      [] source = "github" -> e.h2 /\ e.href
      [] source = "36kr" -> e.itemtitle /\ e.href
      [] source = "v2ex" -> IsDict(e) /\ HasKey(e, "title") /\ HasKey(e, "url")
      [] source = "wallstreetcn" ->
            /\ IsDict(e)
            /\ HasKey(e, "resource")
            /\ IsDict(e.f.resource)
            /\ (HasKey(e.f.resource, "title") \/ HasKey(e.f.resource, "content_short"))

ItemOf(source, e) ==
    CASE source = "hn" -> HnItem(e)
      [] source = "github" -> GithubItem(e)
      [] source = "36kr" -> KrItem(e)
      [] source = "v2ex" -> V2exItem(e)
      [] source = "wallstreetcn" -> WscnItem(e.f.resource)

\* The items of the well-formed entries of a page, in the page's order
RECURSIVE WellFormedItems(_, _, _)
WellFormedItems(source, es, i) ==
    IF i > Len(es) THEN <<>>
    ELSE (IF WellFormed(source, es[i]) THEN <<ItemOf(source, es[i])>> ELSE <<>>)
             \o WellFormedItems(source, es, i + 1)

SomeMalformed(source, es) == \E i \in DOMAIN es : ~WellFormed(source, es[i])

\* The call made one request and it was answered with a page of entries
OnePageAnswered ==
    /\ FetchEnded
    /\ Len(fetchReqs) = 1
    /\ fetchReqs[1] = "ok"
    /\ PageEntries(fetchSource, fetchResp) # <<>>

\* C21: in every source fetcher a malformed row or entry of an otherwise
\* well-formed page is skipped alone: the fetcher returns, and what it
\* returns is made of every well-formed entry of the page.
C21_MalformedEntrySkippedAlone ==
    OnePageAnswered =>
        /\ fetchPc = "returned"
        /\ fetchResult =
              FilterThenTake(WellFormedItems(fetchSource,
                                             PageEntries(fetchSource, fetchResp), 1),
                             fetchKeyword, fetchLimit)

\* What the fetchers do: fetch_hackernews and fetch_github skip the entry
\* alone; in fetch_36kr, fetch_v2ex and fetch_wallstreetcn the loop is
\* inside the one try block of the function, so an entry that raises ends
\* the loop and the page is lost: the empty list is returned or, for an
\* exception outside the except clause, the exception leaves the fetcher.
\* An entry of wallstreetcn without a usable resource is skipped alone.
OnlyRowLoopsSkipAlone ==
    OnePageAnswered =>
        LET es == PageEntries(fetchSource, fetchResp)
            whole == FilterThenTake(WellFormedItems(fetchSource, es, 1),
                                    fetchKeyword, fetchLimit)
            lost == CASE fetchSource \in {"hn", "github"} -> FALSE
                      [] fetchSource \in {"36kr", "v2ex"} -> SomeMalformed(fetchSource, es)
                      [] fetchSource = "wallstreetcn" ->
                            \E i \in DOMAIN es :
                                \/ ~IsDict(es[i])
                                \/ /\ HasKey(es[i], "resource")
                                   /\ es[i].f.resource # JNull
                                   /\ ~IsDict(es[i].f.resource)
        IN  IF lost THEN fetchResult = <<>>
            ELSE fetchPc = "returned" /\ fetchResult = whole

(***************************************************************************)
(* SpecJoin: a call of either pool owner, _fetch_external_sources with its *)
(* five fetcher tasks or fetch_all_sources with its six tasks              *)
(***************************************************************************)
InitJoin == InitExt \/ Init

NextJoin ==
    \/ extPc # "off" /\ NextExt
    \/ mainPc # "off" /\ Next

SpecJoin == InitJoin /\ [][NextJoin]_vars

\* C22: fetch_all_sources hands the bundle to its caller only when all six
\* top-level tasks have finished, and _fetch_external_sources returns only
\* when all five fetcher tasks have finished: no task of a pool is running
\* when the result of its group is returned.
C22_JoinBeforeReturn ==
    /\ extPc \in {"returned", "raised"} => \A f \in Fetchers : futState[f] = "done"
    /\ mainPc \in {"done", "raised"} => \A t \in Tasks : taskState[t] = "done"

\* both owners have a run that returned: the bundle with all six tasks done
C22_Witness ==
    /\ mainPc = "done"
    /\ DOMAIN intel = BundleKeys
    /\ \A t \in Tasks : taskState[t] = "done" /\ taskResult[t].out = "return"

\* _fetch_external_sources has returned its three lists, all fetchers done
C22_ExtReturned ==
    /\ extPc = "returned"
    /\ \A f \in Fetchers : futState[f] = "done"

(***************************************************************************)
(* More claims about the two pools (checked under SpecJoin and SpecExt)    *)
(***************************************************************************)

\* the result of a task has been merged while another task is running
C23_Witness ==
    /\ extPc = "collect"
    /\ \E f \in Fetchers : f \in extYielded /\ futResult[f].out = "return"
                              /\ futResult[f].val # <<>>
    /\ \E c \in ExternalCategories : results[c] # <<>>
    /\ \E f \in Fetchers : futState[f] = "running"

\* C23: no shared mutable state crosses task boundaries: a worker task never
\* writes the per-category result lists, and the results of the tasks are
\* merged into these lists only after all tasks of the group have
\* completed, so that no merge happens while another task of the group is
\* still running.
C23_MergeOnlyAfterAllDone ==
    [][/\ results' # results =>
              /\ futState' = futState
              /\ \A f \in Fetchers : futState[f] = "done"
       /\ intel' # intel =>
              /\ taskState' = taskState
              /\ \A t \in Tasks : taskState[t] = "done"]_vars

\* C23, as the code has it: the per-category result lists are written by
\* the as_completed loop of the calling thread alone, one finished and not
\* yet collected task at a time, and a step of a worker task leaves them as
\* they are; the loop does not wait for the other tasks of the group.  The
\* bundle of fetch_all_sources is written once, when its six tasks are done.
C23_MergedByCollectorOnly ==
    [][/\ results' # results =>
              /\ futState' = futState
              /\ futResult' = futResult
              /\ \E f \in Fetchers :
                    /\ futState[f] = "done"
                    /\ extYielded' = extYielded \cup {f}
                    /\ f \notin extYielded
       /\ futState' # futState => results' = results
       /\ intel' # intel =>
              /\ taskState' = taskState
              /\ taskResult' = taskResult
              /\ \A t \in Tasks : taskState[t] = "done"
       /\ taskState' # taskState => intel' = intel]_vars

(***************************************************************************)
(* Pagination of fetch_hackernews (checked under SpecFetchLive)            *)
(*                                                                         *)
(* The thread that runs a fetcher keeps running, and every request is      *)
(* answered or times out (timeout=10): a step of the fetcher that can be   *)
(* taken is taken.                                                         *)
(***************************************************************************)

SpecFetchLive == SpecFetch /\ WF_vars(NextFetch)

\* A step of fetch_hackernews that makes a request
HnRequests == fetchSource = "hn" /\ fetchReqs' # fetchReqs

\* C24: fetch_hackernews requests pages 1, 2, ... in order (the k-th request
\* is for page k), requests a page only while fewer than `limit` matching
\* items have been collected, makes at most max_pages = 5 requests, has
\* slept once after each earlier request when it makes the next one, and
\* every call returns.
C24_PaginationBoundedAndPaced ==
    /\ [][HnRequests =>
              /\ hnPage = Len(fetchReqs) + 1
              /\ Len(fetchReqs') = Len(fetchReqs) + 1
              /\ Len(hnItems) < fetchLimit
              /\ hnPage <= max_pages
              /\ fetchSleeps = Len(fetchReqs)]_vars
    /\ [](fetchSource = "hn" => Len(fetchReqs) <= max_pages)
    /\ [](fetchSource = "hn" => <>(fetchPc = "returned"))

\* The call asked for all five pages, sleeping after each, and returned
C24_Witness ==
    /\ fetchSource = "hn"
    /\ fetchPc = "returned"
    /\ Len(fetchReqs) = max_pages
    /\ fetchSleeps = max_pages
    /\ Len(fetchResult) < fetchLimit

\* A call that stops at the second page because the limit is reached
C24_StoppedByLimit ==
    /\ fetchSource = "hn"
    /\ fetchPc = "returned"
    /\ Len(fetchReqs) = 2
    /\ fetchSleeps = 1
    /\ Len(fetchResult) = fetchLimit

(***************************************************************************)
(* The order of the items of the external categories                       *)
(***************************************************************************)

\* One round of the as_completed loop has been made
Collected == extYielded' # extYielded

\* The loop has ended with every future collected and no exception
AllCollected == extPc = "returned" /\ extReturn.out = "return"

\* What the loop would have built had the futures completed in `order`
ResultsInOrder(order) == CollectAll(order, futResult, 1, NoResults)

\* C25: each external category is the deduplication of the concatenation of
\* its sources' lists in the order in which the tasks were collected.  Every
\* round of the loop puts the tagged items of the collected task, in the
\* fetcher's order and as one block, at the end of the list of its category
\* and leaves the other lists alone; the lists returned are those of one
\* completion order; the bundle holds _dedup_items of each of the three
\* lists; nothing sorts them.
C25_ArrivalOrderThenDedup ==
    /\ [][Collected =>
              \E f \in Fetchers \ extYielded :
                  /\ extYielded' = extYielded \cup {f}
                  /\ futState[f] = "done"
                  /\ results' =
                         IF futResult[f].out = "raise" THEN results
                         ELSE [results EXCEPT ![Category(f)] =
                                  results[Category(f)]
                                      \o Tagged(futResult[f].val, Name(f))]]_vars
    /\ [][~Collected => results' = results]_vars
    /\ [](AllCollected =>
              /\ extReturn.val = results
              /\ \E o \in CompletionOrders : ResultsInOrder(o) = Ret(results))
    /\ [](mainPc = "done" =>
              \A c \in ExternalCategories :
                  intel[c] = DedupItems(GetList(taskResult["external"].val, c)))

\* A call has returned, and for the same fetcher outputs another completion
\* order gives the same items of tech_trends in another order, before and
\* after deduplication
C25_Witness ==
    /\ AllCollected
    /\ \E o \in CompletionOrders :
           LET other == ResultsInOrder(o).val["tech_trends"]
               this  == results["tech_trends"]
           IN  /\ Range(other) = Range(this)
               /\ other # this
               /\ DedupItems(other) # DedupItems(this)
               /\ Len(DedupItems(this)) < Len(this)

\* A bundle whose tech_trends list lost a duplicate and kept arrival order
C25_BundleDeduplicated ==
    /\ mainPc = "done"
    /\ Len(intel["tech_trends"]) < Len(taskResult["external"].val["tech_trends"])
    /\ Len(intel["tech_trends"]) >= 1

(***************************************************************************)
(* The translator calls of generate_report                                 *)
(*                                                                         *)
(* generate_report runs in one thread.  It calls                           *)
(* generate_executive_summary once, translate_to_chinese twice for every   *)
(* research item with a summary and summarize_blog_article twice for every *)
(* insights item with a text; between the two calls for one item it        *)
(* sleeps GEMINI_RATE_LIMIT_DELAY.  rateLog holds, in order, the requests  *)
(* the three functions post to the API, those sleeps, and the sleeps of    *)
(* the retry loop of translate_to_chinese.                                 *)
(***************************************************************************)

GEMINI_MAX_RETRIES == 3

MaxRateItems == 2

ApiRequest(section, i, mode) == [e |-> "request", section |-> section, i |-> i, mode |-> mode]
RateDelay == [e |-> "delay", section |-> "", i |-> 0, mode |-> ""]
Backoff == [e |-> "backoff", section |-> "", i |-> 0, mode |-> ""]

\* The text of an item: missing or empty, shorter than the length from which
\* the function posts a request (10 characters for translate_to_chinese, 50
\* for summarize_blog_article), or long enough
TextKinds == {"none", "short", "long"}

\* GEMINI_AVAILABLE (the import of the translator) and GEMINI_API_KEY
RateInputs ==
    [gemini : BOOLEAN, key : BOOLEAN, highlights : BOOLEAN,
     research : SeqsUpTo(TextKinds, MaxRateItems),
     insights : SeqsUpTo(TextKinds, MaxRateItems)]

\* translate_to_chinese: no request without the key or for a text of fewer
\* than 10 characters; otherwise `attempts` requests, with a sleep of
\* 2 ** attempt between one and the next
RECURSIVE Attempts(_, _)
Attempts(req, n) ==
    IF n = 1 THEN <<req>> ELSE <<req, Backoff>> \o Attempts(req, n - 1)

TranslateToChinese(in, kind, req, attempts) ==
    IF in.gemini /\ in.key /\ kind = "long" THEN Attempts(req, attempts) ELSE <<>>

\* summarize_blog_article: one request, none without the key or for a
\* content of fewer than 50 characters
SummarizeBlogArticle(in, kind, req) ==
    IF in.gemini /\ in.key /\ kind = "long" THEN <<req>> ELSE <<>>

\* generate_executive_summary: one request, none without the key or
\* without highlights
GenerateExecutiveSummary(in) ==
    IF in.gemini /\ in.key /\ in.highlights
        THEN <<ApiRequest("summary", 0, "summary")>> ELSE <<>>

\* The body of the research loop for item i: brief_cn, the sleep, detail_cn
ResearchItem(in, i, a, b) ==
    LET kind == in.research[i]
    IN  IF kind = "none" THEN <<>>
        ELSE TranslateToChinese(in, kind, ApiRequest("research", i, "brief"), a)
                 \o (IF in.gemini THEN <<RateDelay>> ELSE <<>>)
                 \o TranslateToChinese(in, kind, ApiRequest("research", i, "detail"), b)

\* The body of the insights loop for item i
InsightsItem(in, i) ==
    LET kind == in.insights[i]
    IN  IF kind = "none" \/ ~in.gemini THEN <<>>
        ELSE SummarizeBlogArticle(in, kind, ApiRequest("insights", i, "brief"))
                 \o <<RateDelay>>
                 \o SummarizeBlogArticle(in, kind, ApiRequest("insights", i, "detail"))

IdleButRate ==
    IdleDedup /\ IdleFilter /\ IdleFetch /\ IdleExt /\ IdleMain /\ IdleVal /\ IdleVer
        /\ IdleArx /\ IdleSoc /\ IdleRep
othersRate ==
    <<dedupVars, filterVars, fetchVars, extVars, mainVars, valVars, verVars,
      arxVars, socVars, repVars>>

InitRate ==
    /\ IdleButRate
    /\ ratePc = "summary"
    /\ rateIn \in RateInputs
    /\ rateI = 0
    /\ rateLog = <<>>

\* exec_summary = generate_executive_summary(intel)
RateSummary ==
    /\ ratePc = "summary"
    /\ ratePc' = "research"
    /\ rateI' = 1
    /\ rateLog' = rateLog \o GenerateExecutiveSummary(rateIn)
    /\ UNCHANGED <<rateIn, othersRate>>

\* One pass of `for i, item in enumerate(intel["research"][:5], 1)`
RateResearchItem ==
    /\ ratePc = "research"
    /\ rateI <= Len(rateIn.research)
    /\ \E a, b \in 1..GEMINI_MAX_RETRIES :
           rateLog' = rateLog \o ResearchItem(rateIn, rateI, a, b)
    /\ rateI' = rateI + 1
    /\ UNCHANGED <<ratePc, rateIn, othersRate>>

\* The research loop is over; the sections between make no call
RateToInsights ==
    /\ ratePc = "research"
    /\ rateI > Len(rateIn.research)
    /\ ratePc' = "insights"
    /\ rateI' = 1
    /\ UNCHANGED <<rateIn, rateLog, othersRate>>

\* One pass of `for i, item in enumerate(intel["insights"][:5], 1)`
RateInsightsItem ==
    /\ ratePc = "insights"
    /\ rateI <= Len(rateIn.insights)
    /\ rateLog' = rateLog \o InsightsItem(rateIn, rateI)
    /\ rateI' = rateI + 1
    /\ UNCHANGED <<ratePc, rateIn, othersRate>>

\* return "\n".join(lines)
RateReturn ==
    /\ ratePc = "insights"
    /\ rateI > Len(rateIn.insights)
    /\ ratePc' = "done"
    /\ UNCHANGED <<rateIn, rateI, rateLog, othersRate>>

NextRate ==
    \/ RateSummary
    \/ RateResearchItem
    \/ RateToInsights
    \/ RateInsightsItem
    \/ RateReturn

SpecRate == InitRate /\ [][NextRate]_vars

IsRequest(ev) == ev.e = "request"

\* Requests i and j of the log with no request between them
ConsecutiveRequests(i, j) ==
    /\ i < j
    /\ IsRequest(rateLog[i])
    /\ IsRequest(rateLog[j])
    /\ \A k \in (i + 1)..(j - 1) : ~IsRequest(rateLog[k])

DelayBetween(i, j) == \E k \in (i + 1)..(j - 1) : rateLog[k] = RateDelay

\* C26: the requests generate_report makes to the LLM API are made one after
\* the other, and between any two consecutive ones lies a sleep of
\* GEMINI_RATE_LIMIT_DELAY, from one item to the next and from one section
\* to the next as well.
C26_AllCallsPaced ==
    \A i, j \in DOMAIN rateLog : ConsecutiveRequests(i, j) => DelayBetween(i, j)

\* What does hold: the delay lies between the brief call and the detail call
\* made for one item
OnlyThePairIsPaced ==
    \A i, j \in DOMAIN rateLog :
        (/\ ConsecutiveRequests(i, j)
         /\ rateLog[i].section = rateLog[j].section
         /\ rateLog[i].i = rateLog[j].i
         /\ rateLog[i].mode = "brief"
         /\ rateLog[j].mode = "detail") => DelayBetween(i, j)

\* The detail request for one research item is followed by the brief request
\* for the next with no sleep between them
C26_Unpaced ==
    /\ ratePc = "done"
    /\ \E i \in DOMAIN rateLog :
           /\ i < Len(rateLog)
           /\ rateLog[i] = ApiRequest("research", 1, "detail")
           /\ rateLog[i + 1] = ApiRequest("research", 2, "brief")

(***************************************************************************)
(* Category tagging (checked under SpecExt)                                *)
(***************************************************************************)

\* x is an item the finished task of fetcher f returned, with nothing but
\* the category tag added
ReturnedBy(x, f) ==
    /\ futState[f] = "done"
    /\ futResult[f].out = "return"
    /\ \E i \in DOMAIN futResult[f].val :
           /\ x = Tag(futResult[f].val[i], Name(f))
           /\ \A k \in DOMAIN futResult[f].val[i] :
                  k # "category" => x[k] = futResult[f].val[i][k]
           /\ DOMAIN x = DOMAIN futResult[f].val[i] \cup {"category"}

\* C27: every item of a category list was returned by a fetcher of that
\* category and carries the display name of that fetcher as its category:
\* tech_trends holds items of Hacker News and GitHub, capital_flow of 36Kr and
\* WallStreetCN, community of V2EX; no item is in another bucket, and every
\* field but `category` is as the fetcher returned it.
C27_TaggedWithOwnCategory ==
    \A c \in ExternalCategories :
        \A n \in DOMAIN results[c] :
            LET x == results[c][n]
            IN  /\ \E f \in Fetchers :
                       /\ Category(f) = c
                       /\ x.category = Name(f)
                       /\ x.source = SourceOf(f)
                       /\ ReturnedBy(x, f)
                /\ \A f \in Fetchers :
                       (x.category = Name(f) \/ x.source = SourceOf(f))
                           => Category(f) = c

\* The call has returned the items of all five fetchers, two of each
C27_Witness ==
    /\ extPc = "returned"
    /\ \A f \in Fetchers :
           /\ futResult[f].out = "return"
           /\ Len(futResult[f].val) = 2
           /\ Len(TaggedWith(extReturn.val[Category(f)], Name(f))) = 2

(***************************************************************************)
(* Liveness of the two pools (checked under SpecJoin)                      *)
(*                                                                         *)
(* Every call of a fetcher or a sensor comes to an end (each request has   *)
(* its timeout), a pool with a free worker runs a submitted task (the      *)
(* outer pool has 8 workers for 6 tasks, the inner one 5 for 5), and the   *)
(* calling threads keep running: a step that can be taken is taken.  A run *)
(* then ends if some step can be taken in every state before the end and   *)
(* every step brings the run nearer to the end.                            *)
(***************************************************************************)

\* The calls of the pools are over: the result is with the caller
JoinEnded == extPc \in {"returned", "raised"} \/ mainPc \in {"done", "raised"}

\* How far a run has come: the tasks done, the futures collected, and the
\* position of the calling thread
Rank(pc) ==
    CASE pc \in {"off", "start"} -> 0
      [] pc \in {"collect", "await"} -> 1
      [] pc = "failing" -> 2
      [] OTHER -> 3

Progress ==
    Cardinality({f \in Fetchers : futState[f] = "done"})
        + Cardinality({t \in Tasks : taskState[t] = "done"})
        + Cardinality(extYielded) + Rank(extPc) + Rank(mainPc)

\* C28: if every fetcher and sensor call returns or raises in the end,
\* fetch_all_sources returns a bundle in the end: once its six tasks are
\* done, whatever they did, the step the calling thread takes returns the
\* bundle; until then some step can be taken, and every step brings the run
\* nearer to its end, so that no task waits for another without end.
C28_EventuallyReturnsBundle ==
    /\ [][(mainPc = "await" /\ mainPc' # mainPc) => mainPc' = "done"]_vars
    /\ [][Progress' > Progress]_vars
    /\ [](~JoinEnded => ENABLED NextJoin)
    /\ [](mainPc # "raised")

\* What does hold: in both pools some step can be taken until the call has
\* ended, every step brings the run nearer to its end, a running task can
\* always end whatever the other tasks do, _fetch_external_sources always
\* returns, and fetch_all_sources returns its bundle unless a title is no
\* string
PoolsTerminate ==
    /\ [][Progress' > Progress]_vars
    /\ [](~JoinEnded => ENABLED NextJoin)
    /\ [](\A f \in Fetchers : futState[f] = "running" => ENABLED FetcherEnds(f))
    /\ [](mainPc = "await" =>
              \A t \in Tasks : taskState[t] = "running" =>
                  \E r \in {Ret(<<>>)} : ENABLED TaskEnds(t, r, {}))
    /\ [](extPc # "raised")
    /\ [](mainPc = "raised" => SomeNullTitle)

\* No task of the outer pool raised, the tasks are all done, and the call
\* of fetch_all_sources ended with the AttributeError of _dedup_items
C28_RaisedInstead ==
    /\ mainPc = "raised"
    /\ \A t \in Tasks : taskState[t] = "done" /\ taskResult[t].out = "return"

(***************************************************************************)
(* Completion order and the deduplicated categories (checked under SpecExt)*)
(***************************************************************************)

\* The normalized titles of a list
NormTitles(xs) == {NormTitle(xs[i]) : i \in DOMAIN xs}

\* Two outcomes of _dedup_items that differ at most in the order of the
\* items and in which copy of a repeated title was kept
SameUpToOrder(a, b) ==
    /\ a.out = b.out
    /\ a.out = "return" =>
           /\ Len(a.val) = Len(b.val)
           /\ NormTitles(a.val) = NormTitles(b.val)

\* C29: for fixed outputs of the fetchers, whatever the order in which the
\* tasks complete, each of tech_trends, capital_flow and community has after
\* deduplication the same length and the same set of normalized titles; only
\* the order of the items and the copy kept of a repeated title can differ.
C29_ContentIndependentOfOrder ==
    AllCollected =>
        \A o \in CompletionOrders :
            \A c \in ExternalCategories :
                SameUpToOrder(DedupOutcome(results[c]),
                              DedupOutcome(ResultsInOrder(o).val[c]))

\* A call has returned, and another completion order of the same outputs
\* leaves a tech_trends list of the same length in which the copy of another
\* source stands for a repeated title
C29_Witness ==
    /\ AllCollected
    /\ \E o \in CompletionOrders :
           LET this  == DedupOutcome(results["tech_trends"])
               other == DedupOutcome(ResultsInOrder(o).val["tech_trends"])
           IN  /\ this.out = "return"
               /\ other.out = "return"
               /\ Len(this.val) < Len(results["tech_trends"])
               /\ Len(this.val) >= 2
               /\ Range(this.val) # Range(other.val)
               /\ this.val # other.val

(***************************************************************************)
(* Repeated links in validate_grok_report (checked under SpecValidate)     *)
(***************************************************************************)

\* The number of failure markers that stand in a row behind position i
RECURSIVE MarkersBehind(_, _)
MarkersBehind(content, i) ==
    IF i < Len(content) /\ content[i + 1] = FailedMarker
        THEN 1 + MarkersBehind(content, i + 1)
    ELSE 0

\* The number of times the link occurs in the text
Occurrences(content, link) ==
    Cardinality({i \in DOMAIN content : content[i] = link})

\* C30: in the output of validate_grok_report every occurrence of a checked
\* link found unreachable has exactly one failure marker behind it, also when
\* the same [title](url) link occurs more than once in the text.
C30_OneMarkerPerOccurrence ==
    valPc = "done" =>
        \A i \in DOMAIN valOut :
            FoundUnreachable(valOut[i]) => MarkersBehind(valOut, i) = 1

\* What does hold: behind every occurrence of such a link stand as many
\* markers as the link has occurrences in the input
MarkersAsManyAsOccurrences ==
    valPc = "done" =>
        \A i \in DOMAIN valOut :
            FoundUnreachable(valOut[i]) =>
                MarkersBehind(valOut, i) = Occurrences(valIn, valOut[i])

\* A report with the same unreachable link twice has come back with two
\* markers behind each occurrence
C30_TwoMarkers ==
    /\ valPc = "done"
    /\ \E i \in DOMAIN valOut :
           /\ FoundUnreachable(valOut[i])
           /\ Occurrences(valIn, valOut[i]) = 2
           /\ MarkersBehind(valOut, i) = 2

==============================================================================
